---------------------------- MODULE Spec2Model ----------------------------
(***************************************************************************)
(* Model of src/bot.py: a Telegram bot that hands out categories of files  *)
(* behind a mandatory-channel membership gate and lets admins manage       *)
(* categories, uploads, channels and post-delivery messages.               *)
(*                                                                         *)
(* Python strings that the code parses (callback data, command text,       *)
(* channel ids, ...) are sequences of one-character strings, so that       *)
(* startswith, slicing, split, strip and the regular expressions are       *)
(* computed and not assumed.  An optional value (a missing dict key, None) *)
(* is the empty sequence None, a present one the one-element sequence      *)
(* Some(v).                                                                *)
(***************************************************************************)
EXTENDS Integers, Sequences, FiniteSets, TLC

VARIABLES
    categories,     \* table categories: set of rows [id, name, created_by]
    files,          \* table files: sequence of rows in insertion (SERIAL id) order
    channels,       \* table channels: sequence of rows in insertion order
    post_messages,  \* table post_messages: set of rows, category_id is the key
    timer,          \* table auto_delete_settings: sequence of rows [is_active]
    admins,         \* table admins: set of rows [user_id, is_super, added_by]
    conv,           \* ConversationHandler._conversations, per handler and user
    user_data,      \* context.user_data, per user
    run,            \* the handler execution that is waiting inside the gate or the delivery loop
    memb,           \* observed get_chat_member calls of the current gate, per channel
    trace,          \* observed outbound sends of the current delivery
    last,           \* the last update handled: who, by which callback, what it answered
    inbox,          \* text messages sent to the bot and not yet dispatched: [user, text]
    tasks           \* the webhook requests whose handling is followed statement by statement

vars == <<categories, files, channels, post_messages, timer, admins,
          conv, user_data, run, memb, trace, last, inbox, tasks>>

dbVars == <<categories, files, channels, post_messages, timer, admins>>

(***************************************************************************)
(* Bounds of the model.                                                    *)
(***************************************************************************)
MaxFiles == 2       \* rows of the files table at start-up
MaxBatch == 2       \* files attached in one upload batch
MaxTextLen == 6     \* length of the free texts tried against the validators

None == <<>>
Some(v) == <<v>>

Min(a, b) == IF a < b THEN a ELSE b

(***************************************************************************)
(* String literals of the source, as character sequences.                  *)
(***************************************************************************)
S_cat_ == <<"c", "a", "t", "_">>
S_check_ == <<"c", "h", "e", "c", "k", "_">>
S_view_ == <<"v", "i", "e", "w", "_">>
S_add_ == <<"a", "d", "d", "_">>
S_delcat_ == <<"d", "e", "l", "c", "a", "t", "_">>
S_postmsg_ == <<"p", "o", "s", "t", "m", "s", "g", "_">>
S_delpost_ == <<"d", "e", "l", "p", "o", "s", "t", "_">>
S_delpost == <<"d", "e", "l", "p", "o", "s", "t">>
S_post_text == <<"p", "o", "s", "t", "_", "t", "e", "x", "t">>
S_post_photo == <<"p", "o", "s", "t", "_", "p", "h", "o", "t", "o">>
S_post_video == <<"p", "o", "s", "t", "_", "v", "i", "d", "e", "o">>
S_post_document == <<"p", "o", "s", "t", "_", "d", "o", "c", "u", "m", "e", "n", "t">>
S_add_channel == <<"a", "d", "d", "_", "c", "h", "a", "n", "n", "e", "l">>
S_remove_channel == <<"r", "e", "m", "o", "v", "e", "_", "c", "h", "a", "n", "n", "e", "l">>
S_list_channels == <<"l", "i", "s", "t", "_", "c", "h", "a", "n", "n", "e", "l", "s">>
S_delchan_ == <<"d", "e", "l", "c", "h", "a", "n", "_">>
S_upload_cat_ == <<"u", "p", "l", "o", "a", "d", "_", "c", "a", "t", "_">>
S_toggle_timer == <<"t", "o", "g", "g", "l", "e", "_", "t", "i", "m", "e", "r">>
S_start == <<"/", "s", "t", "a", "r", "t">>
S_cancel == <<"/", "c", "a", "n", "c", "e", "l">>
S_finish_upload == <<"/", "f", "i", "n", "i", "s", "h", "_", "u", "p", "l", "o", "a", "d">>
S_text == <<"t", "e", "x", "t">>
S_photo == <<"p", "h", "o", "t", "o">>
S_video == <<"v", "i", "d", "e", "o">>
S_document == <<"d", "o", "c", "u", "m", "e", "n", "t">>

\* The reply-keyboard labels of MAIN_MENU: each is matched only as a whole
\* (filters.Regex("^label$")), so each is one symbol.
L_new_category == <<"[new category]">>
L_upload == <<"[upload file]">>
L_channels == <<"[mandatory channel]">>

(***************************************************************************)
(* Python string operations.                                               *)
(***************************************************************************)
StartsWith(s, p) == Len(s) >= Len(p) /\ SubSeq(s, 1, Len(p)) = p

\* s[n:]
Drop(s, n) == SubSeq(s, n + 1, Len(s))

\* position of the first occurrence of character c in s, 0 if none
RECURSIVE IndexOf(_, _, _)
IndexOf(s, c, i) ==
    IF i > Len(s) THEN 0
    ELSE IF s[i] = c THEN i
    ELSE IndexOf(s, c, i + 1)

\* s.split(c): the pieces between the occurrences of c, empty pieces kept
RECURSIVE Split(_, _)
Split(s, c) ==
    LET i == IndexOf(s, c, 1) IN
    IF i = 0 THEN <<s>>
    ELSE <<SubSeq(s, 1, i - 1)>> \o Split(Drop(s, i), c)

\* s.split(): the non-empty pieces between blanks
Words(s) == SelectSeq(Split(s, " "), LAMBDA w : w # <<>>)

\* str.isspace for the characters of the model
IsSpace(c) == c \in {" ", "\n", "\t"}

\* s.strip()
RECURSIVE Strip(_)
Strip(s) ==
    IF s = <<>> THEN s
    ELSE IF IsSpace(s[1]) THEN Strip(Drop(s, 1))
    ELSE IF IsSpace(s[Len(s)]) THEN Strip(SubSeq(s, 1, Len(s) - 1))
    ELSE s

\* the class \d on the characters of the model
IsDigit(c) == c \in {"0", "1", "2", "3", "4", "5", "6", "7", "8", "9"}

\* re.match("^" + re + "$", s) for a pattern that is a sequence of literal characters
\* and of items "\\d+" (s has no trailing newline where the model uses it)
RECURSIVE ReMatch(_, _)
ReMatch(re, s) ==
    IF re = <<>> THEN s = <<>>
    ELSE IF s = <<>> THEN FALSE
    ELSE IF Head(re) = "\\d+"
    THEN IsDigit(Head(s)) /\ (ReMatch(re, Tail(s)) \/ ReMatch(Tail(re), Tail(s)))
    ELSE Head(s) = Head(re) /\ ReMatch(Tail(re), Tail(s))

(***************************************************************************)
(* The identifiers of the model.                                           *)
(***************************************************************************)
ADMIN_IDS == {1}                \* the seed admins of the environment
Users == {1, 2}                 \* 1 is a seed admin, 2 is not an admin
CatIds == {<<"a", "1">>, <<"b", "2">>}      \* uuid prefixes (no "_" in them)
FileRefs == {<<"f", "1">>, <<"f", "2">>, <<"f", "3">>}
ChannelIds == {<<"-", "1", "0", "0", "1">>, <<"-", "1", "0", "0", "0">>}
FileTypes == {"document", "photo", "video", "audio"}

\* the type extract_file_info gives a file reference (a reference has one kind)
FileTypeOf(f) ==
    IF f = <<"f", "1">> THEN "document"
    ELSE IF f = <<"f", "2">> THEN "photo"
    ELSE "video"

(***************************************************************************)
(* Updates.                                                                *)
(***************************************************************************)
Txt(t) == [kind |-> "message", text |-> t, media |-> "none", file_id |-> <<>>, data |-> <<>>]
Media(f) == [kind |-> "message", text |-> <<>>, media |-> FileTypeOf(f), file_id |-> f, data |-> <<>>]
Btn(d) == [kind |-> "callback", text |-> <<>>, media |-> "none", file_id |-> <<>>, data |-> d]

IsMsg(ev) == ev.kind = "message"
IsCallback(ev) == ev.kind = "callback"
\* filters.TEXT
HasText(ev) == IsMsg(ev) /\ ev.text # <<>>
\* filters.COMMAND: the text starts with a bot command
IsCmd(ev) == HasText(ev) /\ ev.text[1] = "/" /\ Len(Words(ev.text)[1]) > 1
\* CommandHandler(name)
IsCommand(ev, name) == IsCmd(ev) /\ Words(ev.text)[1] = name
\* context.args of a CommandHandler
CommandArgs(ev) == Drop(Words(ev.text), 1)
\* filters.Regex("^label$")
IsLabel(ev, label) == HasText(ev) /\ ev.text = label


(***************************************************************************)
(* Database: each method as a function of the tables.  A method that can   *)
(* raise returns raised = TRUE with the tables as they were left.          *)
(***************************************************************************)
CategoryIds(cats) == {c.id : c \in cats}

\* INSERT INTO categories: id is the primary key and name is UNIQUE
add_category(cats, cid, name, created_by) ==
    IF \E c \in cats : c.id = cid \/ c.name = name
    THEN [raised |-> TRUE, categories |-> cats]
    ELSE [raised |-> FALSE,
          categories |-> cats \cup {[id |-> cid, name |-> name, created_by |-> created_by]}]

\* the rows of a category in insertion order
FilesOf(fs, cid) == SelectSeq(fs, LAMBDA r : r.category_id = cid)

\* a SELECT without ORDER BY may return the rows in any order
ReadOrders(rows) ==
    LET n == Len(rows)
        perms == {p \in [1..n -> 1..n] : \A i, j \in 1..n : p[i] = p[j] => i = j}
    IN {[i \in 1..n |-> rows[p[i]]] : p \in perms}

PostMessageOf(pms, cid) ==
    IF \E m \in pms : m.category_id = cid
    THEN Some(CHOOSE m \in pms : m.category_id = cid)
    ELSE None

\* get_category, for one result order of the files query
get_category(cats, fs, pms, cid, order) ==
    IF cid \notin CategoryIds(cats) THEN None
    ELSE Some([name |-> (CHOOSE c \in cats : c.id = cid).name,
               files |-> order,
               post_message |-> PostMessageOf(pms, cid)])

\* a variant whose files table has no ON DELETE CASCADE
delete_category_m(cats, fs, pms, cid) ==
    [success |-> cid \in CategoryIds(cats),
     categories |-> {c \in cats : c.id # cid},
     files |-> fs,
     post_messages |-> {m \in pms : m.category_id # cid}]
\* DELETE FROM categories, with ON DELETE CASCADE of files and post_messages
delete_category(cats, fs, pms, cid) ==
    [success |-> cid \in CategoryIds(cats),
     categories |-> {c \in cats : c.id # cid},
     files |-> SelectSeq(fs, LAMBDA r : r.category_id # cid),
     post_messages |-> {m \in pms : m.category_id # cid}]

FileExists(fs, ref) == \E i \in 1..Len(fs) : fs[i].file_id = ref

\* a variant without the UNIQUE constraint on file_id
InsertFile_m(cats, fs, cid, f) ==
    IF cid \notin CategoryIds(cats) THEN [error |-> "foreign_key", files |-> fs]
    ELSE [error |-> "",
          files |-> Append(fs, [category_id |-> cid, file_id |-> f.file_id,
                                file_type |-> f.file_type])]
\* INSERT INTO files: file_id is UNIQUE, category_id REFERENCES categories
InsertFile(cats, fs, cid, f) ==
    IF FileExists(fs, f.file_id) THEN [error |-> "unique", files |-> fs]
    ELSE IF cid \notin CategoryIds(cats) THEN [error |-> "foreign_key", files |-> fs]
    ELSE [error |-> "",
          files |-> Append(fs, [category_id |-> cid, file_id |-> f.file_id,
                                file_type |-> f.file_type])]

RECURSIVE add_files_loop(_, _, _, _, _)
add_files_loop(cats, fs, cid, batch, inserted_count) ==
    IF batch = <<>> THEN [raised |-> FALSE, files |-> fs, count |-> inserted_count]
    ELSE IF FileExists(fs, Head(batch).file_id)
    THEN add_files_loop(cats, fs, cid, Tail(batch), inserted_count)
    ELSE LET r == InsertFile(cats, fs, cid, Head(batch)) IN
         IF r.error = "unique"
         THEN add_files_loop(cats, fs, cid, Tail(batch), inserted_count)
         ELSE IF r.error # ""
         THEN [raised |-> TRUE, files |-> fs, count |-> inserted_count]
         ELSE add_files_loop(cats, r.files, cid, Tail(batch), inserted_count + 1)

\* a variant that counts every file offered
add_files_m(cats, fs, cid, batch) ==
    [add_files_loop(cats, fs, cid, batch, 0) EXCEPT !.count = Len(batch)]
add_files(cats, fs, cid, batch) == add_files_loop(cats, fs, cid, batch, 0)

\* INSERT INTO channels: channel_id is UNIQUE, the violation is caught
add_channel(chs, channel_id, name, link) ==
    IF \E i \in 1..Len(chs) : chs[i].channel_id = channel_id
    THEN [success |-> FALSE, channels |-> chs]
    ELSE [success |-> TRUE,
          channels |-> Append(chs, [channel_id |-> channel_id, channel_name |-> name,
                                    invite_link |-> link])]

delete_channel(chs, channel_id) ==
    [success |-> \E i \in 1..Len(chs) : chs[i].channel_id = channel_id,
     channels |-> SelectSeq(chs, LAMBDA r : r.channel_id # channel_id)]

is_admin(adm, user_id) == \E a \in adm : a.user_id = user_id

\* INSERT ... ON CONFLICT (user_id) DO UPDATE SET is_super = EXCLUDED.is_super
add_admin(adm, user_id, is_super, added_by) ==
    IF is_admin(adm, user_id)
    THEN {IF a.user_id = user_id THEN [a EXCEPT !.is_super = is_super] ELSE a : a \in adm}
    ELSE adm \cup {[user_id |-> user_id, is_super |-> is_super, added_by |-> added_by]}

\* a variant that deletes the row whatever its is_super
remove_admin_m(adm, user_id) == {a \in adm : a.user_id # user_id}
\* DELETE FROM admins WHERE user_id = $1 AND is_super = FALSE
remove_admin(adm, user_id) == {a \in adm : ~(a.user_id = user_id /\ ~a.is_super)}

\* INSERT ... ON CONFLICT (category_id) DO UPDATE; category_id REFERENCES categories
set_post_message(cats, pms, cid, message_type, content) ==
    IF cid \notin CategoryIds(cats) THEN [raised |-> TRUE, post_messages |-> pms]
    ELSE [raised |-> FALSE,
          post_messages |-> {m \in pms : m.category_id # cid}
              \cup {[category_id |-> cid, message_type |-> message_type, content |-> content]}]

delete_post_message(pms, cid) == {m \in pms : m.category_id # cid}

\* update_timer_settings(is_active): update the first row, or insert one
update_timer_settings(rows, is_active) ==
    IF rows # <<>> THEN [rows EXCEPT ![1] = [is_active |-> is_active]]
    ELSE <<[is_active |-> is_active]>>

(***************************************************************************)
(* BotManager.init: the seed admins are upserted as super admins.          *)
(***************************************************************************)
\* a variant that inserts the missing seed rows and leaves the present ones
SeedAdmins_m(adm, ids) ==
    adm \cup {[user_id |-> id, is_super |-> TRUE, added_by |-> 0] :
                 id \in {i \in ids : ~is_admin(adm, i)}}
RECURSIVE SeedAdmins(_, _)
SeedAdmins(adm, ids) ==
    IF ids = {} THEN adm
    ELSE LET id == CHOOSE x \in ids : TRUE IN
         SeedAdmins(add_admin(adm, id, TRUE, 0), ids \ {id})

(***************************************************************************)
(* Sessions.                                                               *)
(***************************************************************************)
ConvNames == {"category", "upload", "channel", "post"}
END == "END"

EmptyUserData == [upload |-> None, channel_id |-> None, channel_name |-> None,
                  post_message |-> None]

NoRun == [pc |-> "idle", user |-> 0, category_id |-> <<>>, channels |-> <<>>, i |-> 0,
          attempt |-> 0, non_joined |-> <<>>, gate |-> "", files |-> <<>>, k |-> 0,
          post_message |-> None]

\* webhook_handler runs once per request, each run a task of the event loop
TaskIds == {1, 2}

\* a task: where it stands, whose update it handles and by which callback, the locals
\* of toggle_timer and update_timer_settings (new_status, the row read), the locals of
\* finish_upload and add_files (category, batch, position, inserted_count), the
\* number of UniqueViolationError it caught and whether the callback raised
NoTask == [pc |-> "free", user |-> 0, handler |-> "", new_status |-> FALSE, row |-> 0,
           category_id |-> <<>>, batch |-> <<>>, k |-> 0, count |-> 0, conflicts |-> 0,
           raised |-> FALSE]

NoTasks == [t \in TaskIds |-> NoTask]

\* updates are handled one at a time: no handler is waiting in the gate or the delivery
Quiet == run.pc \in {"idle", "done"}

\* a handler that neither checks membership nor delivers
NoDelivery == run' = NoRun /\ memb' = <<>> /\ trace' = <<>>

\* what is recorded of the last update handled: the user, the callback, whether it
\* raised, the answers it sent, for the handlers of free text the text of the message,
\* for the handlers of buttons that answer through the message or choose the kind of
\* post-message the callback data, for a call of add_admin or remove_admin (no update
\* leads to one) its arguments, and for finish_upload the number of files offered,
\* the count it reported and the number of rows the files table grew by (for the
\* delcat_ branch of button_handler the rows it lost, as a negative number)
NoLast == [user |-> 0, handler |-> "", raised |-> FALSE, replies |-> <<>>, text |-> <<>>,
           data |-> <<>>, args |-> <<>>, offered |-> 0, count |-> None, added |-> 0]

Answer(u, h, replies) == [NoLast EXCEPT !.user = u, !.handler = h, !.replies = replies]
Raise(u, h, replies) ==
    [NoLast EXCEPT !.user = u, !.handler = h, !.raised = TRUE, !.replies = replies]

\* a variant that keeps one state per handler, whoever the user is
SetConv_m(c, u, new_state) ==
    IF new_state = "None" THEN conv ELSE [conv EXCEPT ![c] = [x \in Users |-> new_state]]
\* ConversationHandler._update_state: None keeps the state, END removes the key
SetConv(c, u, new_state) ==
    IF new_state = "None" THEN conv ELSE [conv EXCEPT ![c][u] = new_state]

(***************************************************************************)
(* setup_bot: the handlers in registration order (all in group 0, so the   *)
(* first whose check_update accepts the update handles it, and no other).  *)
(***************************************************************************)
Matches(f, ev) ==
    CASE f = "CMD_start" -> IsCommand(ev, S_start)
      [] f = "CMD_cancel" -> IsCommand(ev, S_cancel)
      [] f = "CMD_finish_upload" -> IsCommand(ev, S_finish_upload)
      [] f = "LABEL_new_category" -> IsLabel(ev, L_new_category)
      [] f = "LABEL_upload" -> IsLabel(ev, L_upload)
      [] f = "LABEL_channels" -> IsLabel(ev, L_channels)
      [] f = "TEXT_not_COMMAND" -> HasText(ev) /\ ~IsCmd(ev)
      [] f = "TEXT" -> HasText(ev)
      [] f = "ANY_FILE" -> IsMsg(ev) /\ ev.media \in {"document", "photo", "video", "audio"}
      [] f = "TEXT_PHOTO_VIDEO_DOCUMENT" ->
             HasText(ev) \/ (IsMsg(ev) /\ ev.media \in {"photo", "video", "document"})
      [] f = "CB_upload_cat_" -> IsCallback(ev) /\ StartsWith(ev.data, S_upload_cat_)
      [] f = "CB_toggle_timer" -> IsCallback(ev) /\ ev.data = S_toggle_timer
      [] f = "CB_add_channel" -> IsCallback(ev) /\ ev.data = S_add_channel
      [] f = "CB_postmsg_" -> IsCallback(ev) /\ StartsWith(ev.data, S_postmsg_)
      [] f = "CB_any" -> IsCallback(ev)

H(f, cb) == [f |-> f, cb |-> cb]

Fallbacks == <<H("CMD_cancel", "cancel")>>

EntryPoints(c) ==
    CASE c = "category" -> <<H("LABEL_new_category", "new_category")>>
      [] c = "upload" -> <<H("LABEL_upload", "upload_command"),
                           H("CB_upload_cat_", "upload_command")>>
      [] c = "channel" -> <<H("LABEL_channels", "channel_management"),
                            H("CB_add_channel", "start_add_channel")>>
      [] c = "post" -> <<H("CB_postmsg_", "setup_post_message")>>

StateHandlers(c, state) ==
    CASE c = "category" /\ state = "AWAITING_CATEGORY_NAME" ->
             <<H("TEXT_not_COMMAND", "save_category")>>
      [] c = "upload" /\ state = "UPLOADING" ->
             <<H("ANY_FILE", "handle_file"), H("CMD_finish_upload", "finish_upload")>>
      [] c = "channel" /\ state = "WAITING_CHANNEL_INFO" ->
             <<H("TEXT", "handle_channel_id"), H("TEXT", "handle_channel_name"),
               H("TEXT", "handle_channel_link")>>
      [] c = "post" /\ state = "POST_MESSAGE_SETUP" ->
             <<H("CB_any", "handle_post_message_type")>>
      [] c = "post" /\ state = "AWAITING_POST_MESSAGE" ->
             <<H("TEXT_PHOTO_VIDEO_DOCUMENT", "save_post_message")>>
      [] OTHER -> <<>>

\* the callback of the first handler of the list that accepts the update, "" if none
RECURSIVE FirstMatch(_, _)
FirstMatch(hs, ev) ==
    IF hs = <<>> THEN ""
    ELSE IF Matches(Head(hs).f, ev) THEN Head(hs).cb
    ELSE FirstMatch(Tail(hs), ev)

\* ConversationHandler.check_update: entry points when there is no conversation,
\* else the handlers of the state and then the fallbacks
ConvCheck(c, state, ev) ==
    IF state = END THEN FirstMatch(EntryPoints(c), ev)
    ELSE FirstMatch(StateHandlers(c, state) \o Fallbacks, ev)

AppHandlers ==
    <<[conv |-> "", f |-> "CMD_start", cb |-> "start"],
      [conv |-> "category", f |-> "", cb |-> ""],
      [conv |-> "upload", f |-> "", cb |-> ""],
      [conv |-> "", f |-> "CB_toggle_timer", cb |-> "toggle_timer"],
      [conv |-> "channel", f |-> "", cb |-> ""],
      [conv |-> "post", f |-> "", cb |-> ""],
      [conv |-> "", f |-> "CB_any", cb |-> "button_handler"],
      [conv |-> "", f |-> "CMD_cancel", cb |-> "cancel"]>>

\* check_update of one registered handler: the callback it would run, "" if it
\* does not accept the update
CheckUpdate(h, u, ev) ==
    IF h.conv = "" THEN (IF Matches(h.f, ev) THEN h.cb ELSE "")
    ELSE ConvCheck(h.conv, conv[h.conv][u], ev)

\* Application.process_update over one group: the update reaches callback cb of
\* conversation handler c ("" if plain) when that handler accepts it and no handler
\* registered before it does
Routed(u, ev, cb, c) ==
    \E i \in 1..Len(AppHandlers) :
        /\ AppHandlers[i].conv = c
        /\ CheckUpdate(AppHandlers[i], u, ev) = cb
        /\ cb # ""
        /\ \A j \in 1..(i - 1) : CheckUpdate(AppHandlers[j], u, ev) = ""

\* no registered handler accepts the update
Unrouted(u, ev) == \A i \in 1..Len(AppHandlers) : CheckUpdate(AppHandlers[i], u, ev) = ""


(***************************************************************************)
(* Category access: start, user_start, handle_category, the check_ and     *)
(* view_ branches of button_handler, check_channel_membership,             *)
(* send_category_files and send_post_message.  Every await on the          *)
(* transport inside the two loops is a step of its own.                    *)
(***************************************************************************)
MembershipAttempts == 3

Statuses == {"creator", "administrator", "member", "restricted", "left", "kicked"}
\* what one get_chat_member call can give: a status, or a transport error
Outcomes == Statuses \cup {"error"}

\* member.status in ['member', 'administrator', 'creator']
Satisfying_m(status) == status \in {"member", "administrator", "creator", "restricted"}
Satisfying(status) == status \in {"member", "administrator", "creator"}

NoCalls == [calls |-> 0, ok |-> FALSE, sleeps |-> 0]

\* the branch after the membership loop: deliver, or show the join page
GateOutcome_m(non_joined) == "Granted"
GateOutcome(non_joined) == IF non_joined = <<>> THEN "Granted" ELSE "Pending"

\* handle_category and button_handler's check_ branch, from get_channels on;
\* handle_category returns before any membership call when there is no channel
BeginGate(u, h, cid, chs) ==
    /\ memb' = [i \in 1..Len(chs) |-> NoCalls]
    /\ trace' = <<>>
    /\ IF chs = <<>>
       THEN /\ run' = [NoRun EXCEPT !.pc = "deliver", !.user = u, !.category_id = cid,
                                    !.gate = GateOutcome(<<>>)]
            /\ last' = Answer(u, h, IF h = "button_handler" THEN <<"membership_confirmed">>
                                    ELSE <<>>)
       ELSE /\ run' = [NoRun EXCEPT !.pc = "gate", !.user = u, !.category_id = cid,
                                    !.channels = chs, !.i = 1, !.attempt = 1]
            /\ last' = Answer(u, h, <<>>)

\* admin_category_menu
AdminCategoryMenu(u, h, cid) ==
    /\ last' = Answer(u, h, IF cid \in CategoryIds(categories) THEN <<"category_menu">>
                            ELSE <<"category_not_found">>)
    /\ NoDelivery

\* handle_category
HandleCategory(u, h, cid) ==
    IF is_admin(admins, u) THEN AdminCategoryMenu(u, h, cid)
    ELSE \E chs \in ReadOrders(channels) : BeginGate(u, h, cid, chs)

\* a variant that drops the three characters "cat" of the argument
UserStart_m(u, ev) ==
    LET args == CommandArgs(ev) IN
    IF args # <<>> /\ StartsWith(args[1], S_cat_)
    THEN HandleCategory(u, "start", Drop(args[1], 3))
    ELSE last' = Answer(u, "start", <<"user_greeting">>) /\ NoDelivery
\* user_start: a start argument cat_<id> is a category access
UserStart(u, ev) ==
    LET args == CommandArgs(ev) IN
    IF args # <<>> /\ StartsWith(args[1], S_cat_)
    THEN HandleCategory(u, "start", Drop(args[1], 4))
    ELSE last' = Answer(u, "start", <<"user_greeting">>) /\ NoDelivery

\* start on the update ev
Start(u, ev) ==
    /\ Routed(u, ev, "start", "")
    /\ IF is_admin(admins, u)
       THEN last' = Answer(u, "start", <<"admin_menu">>) /\ NoDelivery
       ELSE UserStart(u, ev)

start(u, ev) ==
    /\ Quiet
    /\ Start(u, ev)
    /\ UNCHANGED <<dbVars, conv, user_data, inbox, tasks>>

\* start on the next message of user u
start_message(u) ==
    /\ Quiet
    /\ inbox # <<>>
    /\ Head(inbox).user = u
    /\ Start(u, Txt(Head(inbox).text))
    /\ inbox' = Tail(inbox)
    /\ UNCHANGED <<dbVars, conv, user_data, tasks>>

\* the branch of button_handler's if/elif chain that the callback data takes
ButtonBranch(data) ==
    IF StartsWith(data, S_check_) THEN "check_"
    ELSE IF StartsWith(data, S_view_) THEN "view_"
    ELSE IF StartsWith(data, S_add_) THEN "add_"
    ELSE IF StartsWith(data, S_delcat_) THEN "delcat_"
    ELSE IF StartsWith(data, S_postmsg_) THEN "postmsg_"
    ELSE IF StartsWith(data, S_delpost_) THEN "delpost_"
    ELSE IF data \in {S_post_text, S_post_photo, S_post_video, S_post_document} THEN "post_type"
    ELSE IF data = S_add_channel THEN "add_channel"
    ELSE IF data = S_remove_channel THEN "remove_channel"
    ELSE IF data = S_list_channels THEN "list_channels"
    ELSE IF StartsWith(data, S_delchan_) THEN "delchan_"
    ELSE ""

InButton(u, ev, branch) ==
    /\ Quiet
    /\ Routed(u, ev, "button_handler", "")
    /\ ButtonBranch(ev.data) = branch

\* a variant that keeps the channel list of the user's earlier check
button_check_m(u, ev) ==
    /\ InButton(u, ev, "check_")
    /\ \E chs \in (IF run.user = u /\ run.channels # <<>> THEN {run.channels}
                   ELSE ReadOrders(channels)) :
           BeginGate(u, "button_handler", Drop(ev.data, 6), chs)
    /\ UNCHANGED <<dbVars, conv, user_data, inbox, tasks>>
\* button_handler, data check_<id>: the membership is checked again, for anyone
button_check(u, ev) ==
    /\ InButton(u, ev, "check_")
    /\ \E chs \in ReadOrders(channels) :
           BeginGate(u, "button_handler", Drop(ev.data, 6), chs)
    /\ UNCHANGED <<dbVars, conv, user_data, inbox, tasks>>

\* button_handler, any other data from a user who is no admin
button_denied(u, ev) ==
    /\ InButton(u, ev, ButtonBranch(ev.data))
    /\ ButtonBranch(ev.data) # "check_"
    /\ ~is_admin(admins, u)
    /\ last' = Answer(u, "button_handler", <<"permission_denied">>)
    /\ NoDelivery
    /\ UNCHANGED <<dbVars, conv, user_data, inbox, tasks>>

\* button_handler, data view_<id>, admin: the files are sent without any gate
button_view(u, ev) ==
    /\ InButton(u, ev, "view_")
    /\ is_admin(admins, u)
    /\ run' = [NoRun EXCEPT !.pc = "deliver", !.user = u, !.category_id = Drop(ev.data, 5)]
    /\ memb' = <<>>
    /\ trace' = <<>>
    /\ last' = Answer(u, "button_handler", <<>>)
    /\ UNCHANGED <<dbVars, conv, user_data, inbox, tasks>>

\* the gate has decided on channel run.i: go to the next channel or leave the loop
AfterChannel(is_member) ==
    LET nj == IF is_member THEN run.non_joined
              ELSE Append(run.non_joined, run.channels[run.i])
    IN IF run.i < Len(run.channels)
       THEN /\ run' = [run EXCEPT !.i = @ + 1, !.attempt = 1, !.non_joined = nj]
            /\ last' = last
       ELSE IF GateOutcome(nj) = "Granted"
       THEN /\ run' = [run EXCEPT !.pc = "deliver", !.non_joined = nj, !.gate = "Granted"]
            /\ last' = [last EXCEPT !.replies =
                            IF last.handler = "button_handler"
                            THEN Append(@, "membership_confirmed") ELSE @]
       ELSE /\ run' = [run EXCEPT !.pc = "done", !.non_joined = nj, !.gate = "Pending"]
            /\ last' = [last EXCEPT !.replies = Append(@, "join_page")]

\* a variant that does not count an attempt that ended in a transport error
check_channel_membership_retry(outcome) ==
    /\ run.pc = "gate"
    /\ LET is_member == outcome # "error" /\ Satisfying(outcome) IN
       /\ memb' = [memb EXCEPT ![run.i] =
                      [calls |-> @.calls + 1,
                       ok |-> @.ok \/ outcome \in {"member", "administrator", "creator"},
                       sleeps |-> @.sleeps + (IF is_member THEN 0 ELSE 1)]]
       /\ IF is_member THEN AfterChannel(TRUE)
          ELSE IF outcome = "error" \/ run.attempt < MembershipAttempts
          THEN run' = [run EXCEPT !.attempt = IF outcome = "error" THEN @ ELSE @ + 1]
               /\ last' = last
          ELSE AfterChannel(FALSE)
    /\ UNCHANGED <<dbVars, conv, user_data, trace, inbox, tasks>>
\* a variant whose loop ends at the first transport error
check_channel_membership_m(outcome) ==
    /\ run.pc = "gate"
    /\ LET is_member == outcome # "error" /\ Satisfying(outcome) IN
       /\ memb' = [memb EXCEPT ![run.i] =
                      [calls |-> @.calls + 1,
                       ok |-> @.ok \/ outcome \in {"member", "administrator", "creator"},
                       sleeps |-> @.sleeps + (IF is_member THEN 0 ELSE 1)]]
       /\ IF is_member THEN AfterChannel(TRUE)
          ELSE IF outcome # "error" /\ run.attempt < MembershipAttempts
          THEN run' = [run EXCEPT !.attempt = @ + 1] /\ last' = last
          ELSE AfterChannel(FALSE)
    /\ UNCHANGED <<dbVars, conv, user_data, trace, inbox, tasks>>
\* check_channel_membership: one turn of its loop, a get_chat_member call and,
\* unless the status satisfies, the 2 s sleep
check_channel_membership(outcome) ==
    /\ run.pc = "gate"
    /\ LET is_member == outcome # "error" /\ Satisfying(outcome) IN
       /\ memb' = [memb EXCEPT ![run.i] =
                      [calls |-> @.calls + 1,
                       ok |-> @.ok \/ outcome \in {"member", "administrator", "creator"},
                       sleeps |-> @.sleeps + (IF is_member THEN 0 ELSE 1)]]
       /\ IF is_member THEN AfterChannel(TRUE)
          ELSE IF run.attempt < MembershipAttempts
          THEN run' = [run EXCEPT !.attempt = @ + 1] /\ last' = last
          ELSE AfterChannel(FALSE)
    /\ UNCHANGED <<dbVars, conv, user_data, trace, inbox, tasks>>

Sent(op, ref, ok) == [op |-> op, ref |-> ref, ok |-> ok]

\* send_category_files up to its loop: the category is read and announced
send_category_files(announced) ==
    /\ run.pc = "deliver"
    /\ \E order \in ReadOrders(FilesOf(files, run.category_id)) :
         LET category == get_category(categories, files, post_messages,
                                      run.category_id, order)
         IN IF category = None \/ category[1].files = <<>>
            THEN /\ trace' = Append(trace, Sent("no_files_notice", <<>>, TRUE))
                 /\ run' = [run EXCEPT !.pc = "done"]
            ELSE IF ~announced
            THEN /\ trace' = Append(trace, Sent("delivery_failed_notice", <<>>, TRUE))
                 /\ run' = [run EXCEPT !.pc = "done"]
            ELSE /\ trace' = Append(trace, Sent("announce", <<>>, TRUE))
                 /\ run' = [run EXCEPT !.pc = "send", !.files = category[1].files, !.k = 1,
                                       !.post_message = category[1].post_message]
    /\ UNCHANGED <<dbVars, conv, user_data, memb, last, inbox, tasks>>

\* the send capability the type tag selects
SendFunc(file_type) ==
    CASE file_type = "document" -> "send_document"
      [] file_type = "photo" -> "send_photo"
      [] file_type = "video" -> "send_video"
      [] file_type = "audio" -> "send_audio"
      [] OTHER -> ""

FileSends == {"send_document", "send_photo", "send_video", "send_audio"}

\* where the loop goes after the send of file k of n ended (ok or raised)
AfterSend_m(k, n, ok) == IF ~ok THEN "done" ELSE IF k < n THEN "send" ELSE "post"
AfterSend(k, n, ok) == IF k < n THEN "send" ELSE "post"

\* one turn of the loop of send_category_files
send_file(ok) ==
    /\ run.pc = "send"
    /\ LET file == run.files[run.k] IN
       /\ trace' = IF SendFunc(file.file_type) = "" THEN trace
                   ELSE Append(trace, Sent(SendFunc(file.file_type), file.file_id, ok))
       /\ run' = [run EXCEPT !.pc = AfterSend(run.k, Len(run.files), ok), !.k = @ + 1]
    /\ UNCHANGED <<dbVars, conv, user_data, memb, last, inbox, tasks>>

\* if category.get('post_message')
HasPostMessage_m(post_message, tr) ==
    post_message # None /\ \A i \in 1..Len(tr) : tr[i].ok
HasPostMessage(post_message, tr) == post_message # None

\* after the loop: send_post_message, whose own failure is only logged
send_post_message(ok) ==
    /\ run.pc = "post"
    /\ IF HasPostMessage(run.post_message, trace)
       THEN trace' = Append(trace, Sent("post_message", run.post_message[1].content, ok))
       ELSE ok /\ trace' = trace
    /\ run' = [run EXCEPT !.pc = "done"]
    /\ UNCHANGED <<dbVars, conv, user_data, memb, last, inbox, tasks>>

(***************************************************************************)
(* SpecAccess: category access over a database as a previous run of the    *)
(* process left it (the tables outlive the process).                       *)
(***************************************************************************)
CatName(cid) == <<"n">> \o cid

PersistedCategories == {[id |-> c, name |-> CatName(c), created_by |-> 1] : c \in CatIds}

\* the category each file reference of the model was uploaded to
CatOf(f) == IF f = <<"f", "3">> THEN <<"b", "2">> ELSE <<"a", "1">>

FileRow(f) == [category_id |-> CatOf(f), file_id |-> f, file_type |-> FileTypeOf(f)]

\* the sequences of exactly n file rows with distinct references
RECURSIVE FileTables(_)
FileTables(n) ==
    IF n = 0 THEN {<<>>}
    ELSE UNION {{Append(t, FileRow(f)) : f \in {g \in FileRefs : ~FileExists(t, g)}} :
                   t \in FileTables(n - 1)}

PersistedFiles == UNION {FileTables(n) : n \in 0..MaxFiles}

ChannelRow(id) == [channel_id |-> id, channel_name |-> <<"c">>, invite_link |-> <<"l">>]

\* no, one or two mandatory channels (get_channels may give them in any order)
PersistedChannels ==
    {<<>>, <<ChannelRow(<<"-", "1", "0", "0", "1">>)>>,
     <<ChannelRow(<<"-", "1", "0", "0", "1">>), ChannelRow(<<"-", "1", "0", "0", "0">>)>>}

PersistedPostMessages ==
    {{}, {[category_id |-> <<"a", "1">>, message_type |-> S_text,
           content |-> <<"b", "y", "e">>]}}

InitSessions ==
    /\ conv = [c \in ConvNames |-> [u \in Users |-> END]]
    /\ user_data = [u \in Users |-> EmptyUserData]
    /\ run = NoRun
    /\ memb = <<>>
    /\ trace = <<>>
    /\ last = NoLast
    /\ tasks = NoTasks

InitAccess ==
    /\ categories = PersistedCategories
    /\ files \in PersistedFiles
    /\ channels \in PersistedChannels
    /\ post_messages \in PersistedPostMessages
    /\ timer = <<>>
    /\ admins = SeedAdmins({}, ADMIN_IDS)
    /\ InitSessions
    /\ inbox = <<>>

StartArg(cid) == S_start \o <<" ">> \o S_cat_ \o cid

AccessUpdates ==
    {Txt(S_start)} \cup {Txt(StartArg(c)) : c \in CatIds}
        \cup {Btn(S_check_ \o c) : c \in CatIds} \cup {Btn(S_view_ \o c) : c \in CatIds}

NextAccess ==
    \/ \E u \in Users, ev \in AccessUpdates :
          \/ start(u, ev)
          \/ button_check(u, ev)
          \/ button_denied(u, ev)
          \/ button_view(u, ev)
    \/ \E outcome \in Outcomes : check_channel_membership(outcome)
    \/ \E ok \in BOOLEAN :
          \/ send_category_files(ok)
          \/ send_file(ok)
          \/ send_post_message(ok)

SpecAccess == InitAccess /\ [][NextAccess]_vars


(***************************************************************************)
(* Claims about category access (checked under SpecAccess).                *)
(***************************************************************************)
SameRows(a, b) == Len(a) = Len(b) /\ {a[i] : i \in 1..Len(a)} = {b[i] : i \in 1..Len(b)}

\* the positions of the trace that are sends of a file, and of the post-message
FileSendIdx == {i \in 1..Len(trace) : trace[i].op \in FileSends}
PostSendIdx == {i \in 1..Len(trace) : trace[i].op = "post_message"}

\* the file references in the order their sends were attempted
RECURSIVE RefsOf(_)
RefsOf(rows) == IF rows = <<>> THEN <<>> ELSE <<Head(rows).ref>> \o RefsOf(Tail(rows))
AttemptedRefs == RefsOf(SelectSeq(trace, LAMBDA t : t.op \in FileSends))

RECURSIVE FileIds(_)
FileIds(rows) == IF rows = <<>> THEN <<>> ELSE <<Head(rows).file_id>> \o FileIds(Tail(rows))
\* the file references of the accessed category in insertion order
PersistedRefs == FileIds(FilesOf(files, run.category_id))

IsPrefix(a, b) == Len(a) <= Len(b) /\ SubSeq(b, 1, Len(a)) = a

\* send_category_files has been entered for the current update
Delivering == run.pc \in {"deliver", "send", "post"} \/ trace # <<>>
\* send_category_files got past the announcement, into its loop
Announced == trace # <<>> /\ trace[1].op = "announce"

\* C1: a user who is not an admin gets send_category_files (and so any file) only in
\* the handling of an update in which every channel that get_channels returned was
\* evaluated as joined; no file is sent while a channel counts as not joined.
C1_GatedDelivery ==
    (Delivering /\ ~is_admin(admins, run.user)) =>
        /\ run.gate = "Granted"
        /\ run.non_joined = <<>>
        /\ SameRows(run.channels, channels)
        /\ Len(memb) = Len(channels)
        /\ \A i \in 1..Len(memb) : memb[i].ok

\* C1 witness: a non-admin is sent a file after two channels were checked, one of
\* them only satisfied on a later attempt
C1_Witness ==
    /\ ~is_admin(admins, run.user)
    /\ FileSendIdx # {}
    /\ Len(run.channels) = 2
    /\ \E i \in 1..Len(memb) : memb[i].calls > 1

\* the channels of the gate for which no attempt reported a satisfying status
Unsatisfied == {run.channels[i].channel_id : i \in {j \in 1..Len(memb) : ~memb[j].ok}}

\* C2: the gate gives Granted iff every channel reported member, administrator or
\* creator on one of at most 3 attempts; otherwise Pending, with non_joined exactly
\* the channels that did not; with no channel it is Granted.
C2_GateResult ==
    run.gate # "" =>
        /\ SameRows(run.channels, channels)
        /\ Len(memb) = Len(channels)
        /\ \A i \in 1..Len(memb) : memb[i].calls \in 1..3
        /\ run.gate \in {"Granted", "Pending"}
        /\ (run.gate = "Granted") <=> (\A i \in 1..Len(memb) : memb[i].ok)
        /\ {run.non_joined[j].channel_id : j \in 1..Len(run.non_joined)} = Unsatisfied
        /\ Len(run.non_joined) = Cardinality(Unsatisfied)
        /\ (channels = <<>> => run.gate = "Granted")

\* C2 witness: Pending over two channels, one joined on its third attempt and the
\* other one listed as not joined
C2_Witness ==
    /\ run.gate = "Pending"
    /\ Len(run.channels) = 2
    /\ Len(run.non_joined) = 1
    /\ \E i \in 1..Len(memb) : memb[i].ok /\ memb[i].calls = 3

\* C3 (as claimed): the files of a category are sent in the order of their insertion,
\* whatever order the read returned them in.
C3_InsertionOrder == IsPrefix(AttemptedRefs, PersistedRefs)

C5_FailureIsolation ==
    /\ run.pc = "send" => Len(AttemptedRefs) = run.k - 1
    /\ (run.pc \in {"post", "done"} /\ Announced) =>
          /\ Len(AttemptedRefs) = Len(PersistedRefs)
          /\ {AttemptedRefs[i] : i \in 1..Len(AttemptedRefs)}
                = {PersistedRefs[i] : i \in 1..Len(PersistedRefs)}
    /\ \A i \in 1..Len(trace) : trace[i].op = "delivery_failed_notice" => FileSendIdx = {}

\* C5 witness: the first file send failed and a later file was attempted all the same
C5_Witness ==
    /\ run.pc = "done"
    /\ \E i, j \in FileSendIdx : i < j /\ ~trace[i].ok


(***************************************************************************)
(* Upload: upload_command, handle_file, finish_upload, cancel, and the     *)
(* delcat_ branch of button_handler.                                       *)
(***************************************************************************)
\* update.message.reply_text(tag): update.message is None for a callback query, so
\* the call raises AttributeError there
ReplyToMessage(u, h, ev, tag) ==
    IF IsMsg(ev) THEN Answer(u, h, <<tag>>)
    ELSE [Raise(u, h, <<>>) EXCEPT !.data = ev.data]

\* upload_command, args being context.args (None when no CommandHandler set it)
UploadCommand(u, ev, args) ==
    IF ~is_admin(admins, u)
    THEN /\ last' = ReplyToMessage(u, "upload_command", ev, "permission_denied")
         /\ UNCHANGED <<conv, user_data>>
    ELSE IF args = None
    THEN /\ last' = ReplyToMessage(u, "upload_command", ev,
                        IF categories = {} THEN "no_categories" ELSE "choose_category")
         /\ UNCHANGED <<conv, user_data>>
    ELSE IF args[1] \notin CategoryIds(categories)
    THEN /\ last' = ReplyToMessage(u, "upload_command", ev, "category_not_found")
         /\ UNCHANGED <<conv, user_data>>
    ELSE /\ user_data' = [user_data EXCEPT ![u].upload =
                              Some([category_id |-> args[1], files |-> <<>>])]
         /\ last' = ReplyToMessage(u, "upload_command", ev, "upload_mode")
         /\ conv' = IF IsMsg(ev) THEN SetConv("upload", u, "UPLOADING") ELSE conv

\* upload_command as setup_bot registers it: context.args is never set
upload_command(u, ev) ==
    /\ Quiet
    /\ Routed(u, ev, "upload_command", "upload")
    /\ UploadCommand(u, ev, None)
    /\ NoDelivery
    /\ UNCHANGED <<dbVars, inbox, tasks>>

\* upload_command called on a message with a category id as command argument
upload_command_args(u, cid) ==
    /\ Quiet
    /\ conv["upload"][u] = END
    /\ UploadCommand(u, Txt(L_upload), <<cid>>)
    /\ NoDelivery
    /\ UNCHANGED <<dbVars, inbox, tasks>>

\* extract_file_info
extract_file_info(ev) ==
    IF ev.media \in FileTypes
    THEN Some([file_id |-> ev.file_id, file_type |-> ev.media])
    ELSE None

handle_file(u, ev) ==
    /\ Quiet
    /\ Routed(u, ev, "handle_file", "upload")
    /\ IF user_data[u].upload = None
       THEN last' = Answer(u, "handle_file", <<>>) /\ UNCHANGED user_data
       ELSE IF extract_file_info(ev) = None
       THEN last' = Answer(u, "handle_file", <<"unsupported_file">>) /\ UNCHANGED user_data
       ELSE /\ Len(user_data[u].upload[1].files) < MaxBatch
            /\ user_data' = [user_data EXCEPT ![u].upload[1].files =
                                 Append(@, extract_file_info(ev)[1])]
            /\ last' = Answer(u, "handle_file", <<"file_received">>)
    /\ NoDelivery
    /\ UNCHANGED <<dbVars, conv, inbox, tasks>>

finish_upload(u, ev) ==
    /\ Quiet
    /\ Routed(u, ev, "finish_upload", "upload")
    /\ IF user_data[u].upload = None
       THEN /\ last' = Answer(u, "finish_upload", <<"no_active_upload">>)
            /\ conv' = SetConv("upload", u, END)
            /\ UNCHANGED <<user_data, files>>
       ELSE LET upload == user_data[u].upload[1]
                r == add_files(categories, files, upload.category_id, upload.files)
            IN /\ user_data' = [user_data EXCEPT ![u].upload = None]
               /\ IF upload.files = <<>>
                  THEN /\ last' = Answer(u, "finish_upload", <<"no_file_received">>)
                       /\ conv' = SetConv("upload", u, END)
                       /\ UNCHANGED files
                  ELSE /\ files' = r.files
                       /\ last' = [(IF r.raised THEN Raise(u, "finish_upload", <<>>)
                                    ELSE Answer(u, "finish_upload", <<"files_saved">>))
                                   EXCEPT !.offered = Len(upload.files),
                                          !.count = IF r.raised THEN None ELSE Some(r.count),
                                          !.added = Len(r.files) - Len(files)]
                       /\ conv' = IF r.raised THEN conv ELSE SetConv("upload", u, END)
    /\ NoDelivery
    /\ UNCHANGED <<categories, channels, post_messages, timer, admins, inbox, tasks>>

\* cancel: the four transient keys are dropped; as a fallback of conversation
\* handler c it ends that conversation, as the plain handler (c = "") none
CancelledData(d) ==
    [d EXCEPT !.upload = None, !.channel_id = None, !.channel_name = None,
              !.post_message = None]

cancel(u, ev, c) ==
    /\ Quiet
    /\ Routed(u, ev, "cancel", c)
    /\ user_data' = [user_data EXCEPT ![u] = CancelledData(@)]
    /\ last' = [Answer(u, "cancel", <<"cancelled">>) EXCEPT !.text = ev.text]
    /\ conv' = IF c = "" THEN conv ELSE SetConv(c, u, END)
    /\ NoDelivery
    /\ UNCHANGED <<dbVars, inbox, tasks>>

\* button_handler, data add_<id>, admin: the returned state is dropped
button_add(u, ev) ==
    /\ InButton(u, ev, "add_")
    /\ is_admin(admins, u)
    /\ user_data' = [user_data EXCEPT ![u].upload =
                         Some([category_id |-> Drop(ev.data, 4), files |-> <<>>])]
    /\ last' = Answer(u, "button_handler", <<"send_files">>)
    /\ NoDelivery
    /\ UNCHANGED <<dbVars, conv, inbox, tasks>>

\* button_handler, data delcat_<id>, admin
button_delcat(u, ev) ==
    /\ InButton(u, ev, "delcat_")
    /\ is_admin(admins, u)
    /\ LET r == delete_category(categories, files, post_messages, Drop(ev.data, 7)) IN
       /\ categories' = r.categories
       /\ files' = r.files
       /\ post_messages' = r.post_messages
       /\ last' = [Answer(u, "button_handler",
                          IF r.success THEN <<"category_deleted">> ELSE <<"delete_failed">>)
                   EXCEPT !.added = Len(r.files) - Len(files)]
    /\ NoDelivery
    /\ UNCHANGED <<channels, timer, admins, conv, user_data, inbox, tasks>>

(***************************************************************************)
(* SpecUpload: the upload callbacks, entered with a category id argument.  *)
(***************************************************************************)
InitUpload ==
    /\ categories = PersistedCategories
    /\ files = <<>>
    /\ channels = <<>>
    /\ post_messages \in PersistedPostMessages
    /\ timer = <<>>
    /\ admins = SeedAdmins({}, ADMIN_IDS)
    /\ InitSessions
    /\ inbox = <<>>

DelcatButtons == {Btn(S_delcat_ \o c) : c \in CatIds}

NextUpload ==
    \E u \in Users :
        \/ \E cid \in CatIds : upload_command_args(u, cid)
        \/ \E f \in FileRefs : handle_file(u, Media(f))
        \/ finish_upload(u, Txt(S_finish_upload))
        \/ cancel(u, Txt(S_cancel), "upload")
        \/ cancel(u, Txt(S_cancel), "")
        \/ \E ev \in DelcatButtons : button_delcat(u, ev) \/ button_denied(u, ev)
        \/ \E c \in CatIds : button_add(u, Btn(S_add_ \o c))

SpecUpload == InitUpload /\ [][NextUpload]_vars

NoDuplicateFiles == \A i, j \in 1..Len(files) : files[i].file_id = files[j].file_id => i = j

\* C6: finishing an upload persists no file reference twice, whether it is repeated
\* in the batch or already in the table, and the count finish_upload reports is the
\* number of rows the table grew by.
C6_UploadIdempotent ==
    /\ NoDuplicateFiles
    /\ (last.handler = "finish_upload" /\ last.count # None) =>
           /\ last.count[1] = last.added
           /\ last.count[1] <= last.offered

\* C6 witness: a batch of two attachments of the same reference was finished on an
\* empty table: one row, and a reported count of 1
C6_Witness ==
    /\ last.handler = "finish_upload"
    /\ last.offered = 2
    /\ last.count = Some(1)
    /\ Len(files) = 1


\* C14: after a handler has failed, a flow of the user that is not Idle still has its
\* transient field (the upload batch in Uploading, the draft in the post-message flow).
C14_ErrorKeepsSession ==
    \A u \in Users :
        (last.raised /\ last.user = u) =>
            /\ conv["upload"][u] # END => user_data[u].upload # None
            /\ conv["post"][u] # END => user_data[u].post_message # None

(***************************************************************************)
(* Channel registration: start_add_channel and handle_channel_id.          *)
(***************************************************************************)
\* a variant that accepts -10 followed by digits
CHANNEL_ID_RE_m == <<"-", "1", "0", "\\d+">>
\* the pattern of handle_channel_id, ^-100\d+$
CHANNEL_ID_RE == <<"-", "1", "0", "0", "\\d+">>

StartAddChannel(u, ev) ==
    IF ~is_admin(admins, u)
    THEN /\ last' = ReplyToMessage(u, "start_add_channel", ev, "permission_denied")
         /\ UNCHANGED conv
    ELSE /\ last' = ReplyToMessage(u, "start_add_channel", ev, "send_channel_id")
         /\ conv' = IF IsMsg(ev) THEN SetConv("channel", u, "WAITING_CHANNEL_INFO") ELSE conv

\* start_add_channel as setup_bot registers it, on the add_channel button
start_add_channel(u, ev) ==
    /\ Quiet
    /\ Routed(u, ev, "start_add_channel", "channel")
    /\ StartAddChannel(u, ev)
    /\ NoDelivery
    /\ UNCHANGED <<dbVars, user_data, inbox, tasks>>

\* start_add_channel called on a message
start_add_channel_message(u) ==
    /\ Quiet
    /\ conv["channel"][u] = END
    /\ StartAddChannel(u, Txt(S_add_channel))
    /\ NoDelivery
    /\ UNCHANGED <<dbVars, user_data, inbox, tasks>>

\* handle_channel_id on the update ev
HandleChannelId(u, ev) ==
    /\ Routed(u, ev, "handle_channel_id", "channel")
    /\ LET channel_id == Strip(ev.text) IN
       IF ~ReMatch(CHANNEL_ID_RE, channel_id)
       THEN /\ last' = Answer(u, "handle_channel_id", <<"invalid_channel_id">>)
            /\ UNCHANGED user_data
       ELSE /\ user_data' = [user_data EXCEPT ![u].channel_id = Some(channel_id)]
            /\ last' = Answer(u, "handle_channel_id", <<"channel_id_valid">>)
    /\ conv' = SetConv("channel", u, "WAITING_CHANNEL_INFO")

\* handle_channel_id on the next text message of user u
handle_channel_id(u) ==
    /\ Quiet
    /\ inbox # <<>>
    /\ Head(inbox).user = u
    /\ HandleChannelId(u, Txt(Head(inbox).text))
    /\ inbox' = Tail(inbox)
    /\ NoDelivery
    /\ UNCHANGED <<dbVars, tasks>>

(***************************************************************************)
(* SpecChannel: the channel flow entered by a message, fed with every text *)
(* of up to MaxTextLen characters, alone or after a valid channel id.      *)
(***************************************************************************)
Alphabet == {"-", "0", "1", "a", " "}

Texts == UNION {[1..n -> Alphabet] : n \in 1..MaxTextLen}

ValidIdText == <<"-", "1", "0", "0", "1">>

InitChannel ==
    /\ categories = {}
    /\ files = <<>>
    /\ channels = <<>>
    /\ post_messages = {}
    /\ timer = <<>>
    /\ admins = SeedAdmins({}, ADMIN_IDS)
    /\ InitSessions
    /\ \E u \in ADMIN_IDS, t \in Texts \cup {S_cancel} :
           \/ inbox = <<[user |-> u, text |-> t]>>
           \/ inbox = <<[user |-> u, text |-> ValidIdText], [user |-> u, text |-> t]>>

NextChannel ==
    \E u \in ADMIN_IDS :
        \/ start_add_channel_message(u)
        \/ handle_channel_id(u)

SpecChannel == InitChannel /\ [][NextChannel]_vars

\* the text is -100 followed by one or more digits
IsMinus100Digits(t) ==
    /\ Len(t) >= 5
    /\ SubSeq(t, 1, 4) = <<"-", "1", "0", "0">>
    /\ \A i \in 5..Len(t) : IsDigit(t[i])

\* handle_channel_id takes the first text of the inbox, sent by u, in this step
ChannelIdStep(u) ==
    /\ inbox # <<>>
    /\ inbox' = Tail(inbox)
    /\ Head(inbox).user = u
    /\ last'.handler = "handle_channel_id"

\* the outcome the validation of text t has for user u when id is the text looked at:
\* accepted exactly if id has the form, and then stored; otherwise the validation
\* message, nothing stored and the same conversation state
ChannelIdOutcome(u, id) ==
    IF IsMinus100Digits(id)
    THEN /\ last'.replies = <<"channel_id_valid">>
         /\ user_data'[u] = [user_data[u] EXCEPT !.channel_id = Some(id)]
         /\ conv' = conv
    ELSE /\ last'.replies = <<"invalid_channel_id">>
         /\ user_data' = user_data
         /\ conv' = conv

\* C8 as stated: a text is accepted as channel id iff the text is -100 followed by
\* digits; every other text gets the validation message, stores nothing and leaves
\* the conversation state unchanged.
C8_RawTextValidation ==
    [][\A u \in Users : ChannelIdStep(u) => ChannelIdOutcome(u, Head(inbox).text)]_vars

\* C8 amended: a text is accepted as channel id iff, with the surrounding whitespace
\* stripped, it is -100 followed by digits, and the stripped text is what is stored;
\* every other text gets the validation message, stores nothing and leaves the
\* conversation state unchanged.
C8_StrippedTextValidation ==
    [][\A u \in Users : ChannelIdStep(u) => ChannelIdOutcome(u, Strip(Head(inbox).text))]_vars

\* C8 witness: a text was rejected with the validation message while the channel id
\* accepted before it is still the one stored
C8_Witness ==
    /\ last.handler = "handle_channel_id"
    /\ last.replies = <<"invalid_channel_id">>
    /\ user_data[1].channel_id = Some(ValidIdText)
    /\ conv["channel"][1] = "WAITING_CHANNEL_INFO"

\* C9: once a valid channel id is stored, the next text of the admin is taken as the
\* channel name (the second of the three steps of the registration).
C9_NameAfterId ==
    [][\A u \in Users :
          (/\ inbox # <<>>
           /\ inbox' = Tail(inbox)
           /\ Head(inbox).user = u
           /\ conv["channel"][u] = "WAITING_CHANNEL_INFO"
           /\ user_data[u].channel_id # None)
          => user_data'[u].channel_name = Some(Strip(Head(inbox).text))]_vars


(***************************************************************************)
(* The admin conversations: new_category, save_category,                   *)
(* channel_management, setup_post_message, handle_post_message_type,       *)
(* save_post_message, and the branches of button_handler that call them.   *)
(***************************************************************************)
new_category(u, ev) ==
    /\ Quiet
    /\ Routed(u, ev, "new_category", "category")
    /\ IF ~is_admin(admins, u)
       THEN /\ last' = ReplyToMessage(u, "new_category", ev, "permission_denied")
            /\ UNCHANGED conv
       ELSE /\ last' = ReplyToMessage(u, "new_category", ev, "send_category_name")
            /\ conv' = SetConv("category", u, "AWAITING_CATEGORY_NAME")
    /\ NoDelivery
    /\ UNCHANGED <<dbVars, user_data, inbox, tasks>>

\* save_category; cid is the uuid prefix add_category draws
save_category(u, ev, cid) ==
    /\ Quiet
    /\ Routed(u, ev, "save_category", "category")
    /\ LET r == add_category(categories, cid, Strip(ev.text), u) IN
       /\ categories' = r.categories
       /\ IF r.raised
          THEN /\ last' = [Raise(u, "save_category", <<>>) EXCEPT !.text = ev.text]
               /\ UNCHANGED conv
          ELSE /\ last' = [Answer(u, "save_category", <<"category_created">>)
                               EXCEPT !.text = ev.text]
               /\ conv' = SetConv("category", u, END)
    /\ NoDelivery
    /\ UNCHANGED <<files, channels, post_messages, timer, admins, user_data, inbox, tasks>>

channel_management(u, ev) ==
    /\ Quiet
    /\ Routed(u, ev, "channel_management", "channel")
    /\ last' = ReplyToMessage(u, "channel_management", ev,
                   IF is_admin(admins, u) THEN "channel_menu" ELSE "permission_denied")
    /\ NoDelivery
    /\ UNCHANGED <<dbVars, conv, user_data, inbox, tasks>>

\* the body of setup_post_message; h is the registered callback that runs it
SetupPostMessage(u, h, ev) ==
    /\ user_data' = [user_data EXCEPT ![u].post_message =
                         Some([category_id |-> Split(ev.data, "_")[2], type |-> None])]
    /\ last' = Answer(u, h, <<"choose_post_type">>)

setup_post_message(u, ev) ==
    /\ Quiet
    /\ Routed(u, ev, "setup_post_message", "post")
    /\ SetupPostMessage(u, "setup_post_message", ev)
    /\ conv' = SetConv("post", u, "POST_MESSAGE_SETUP")
    /\ NoDelivery
    /\ UNCHANGED <<dbVars, inbox, tasks>>

\* the body of handle_post_message_type: the state it returns, "None" when it raises
PostTypeResult(u, ev) ==
    IF Len(Split(ev.data, "_")) < 2 \/ user_data[u].post_message = None THEN "None"
    ELSE IF ev.data = S_delpost THEN END
    ELSE "AWAITING_POST_MESSAGE"

HandlePostMessageType(u, h, ev) ==
    IF PostTypeResult(u, ev) = "None"
    THEN /\ last' = [Raise(u, h, <<>>) EXCEPT !.data = ev.data]
         /\ UNCHANGED <<user_data, post_messages>>
    ELSE /\ user_data' = [user_data EXCEPT ![u].post_message[1].type =
                              Some(Split(ev.data, "_")[2])]
         /\ IF ev.data = S_delpost
            THEN /\ post_messages' = delete_post_message(post_messages, Split(ev.data, "_")[2])
                 /\ last' = [Answer(u, h, <<"post_message_deleted">>) EXCEPT !.data = ev.data]
            ELSE /\ last' = [Answer(u, h, IF ev.data = S_post_text THEN <<"send_text">>
                                          ELSE <<"send_media">>) EXCEPT !.data = ev.data]
                 /\ UNCHANGED post_messages

handle_post_message_type(u, ev) ==
    /\ Quiet
    /\ Routed(u, ev, "handle_post_message_type", "post")
    /\ HandlePostMessageType(u, "handle_post_message_type", ev)
    /\ conv' = SetConv("post", u, PostTypeResult(u, ev))
    /\ NoDelivery
    /\ UNCHANGED <<categories, files, channels, timer, admins, inbox, tasks>>

\* a variant that takes the file of a media message whatever kind was selected
PostContent_m(msg_type, ev) ==
    IF msg_type = S_text THEN (IF ev.text = <<>> THEN None ELSE Some(ev.text))
    ELSE IF msg_type \in {S_photo, S_video, S_document} /\ ev.media # "none"
    THEN Some(ev.file_id)
    ELSE None
\* what save_post_message stores for the message type: the text, or the file of the
\* expected kind; None when reading it raises or gives None
PostContent(msg_type, ev) ==
    IF msg_type = S_text THEN (IF ev.text = <<>> THEN None ELSE Some(ev.text))
    ELSE IF (msg_type = S_photo /\ ev.media = "photo")
              \/ (msg_type = S_video /\ ev.media = "video")
              \/ (msg_type = S_document /\ ev.media = "document")
    THEN Some(ev.file_id)
    ELSE None

save_post_message(u, ev) ==
    /\ Quiet
    /\ Routed(u, ev, "save_post_message", "post")
    /\ LET post_data == user_data[u].post_message IN
       IF post_data = None
       THEN /\ last' = [Answer(u, "save_post_message", <<"post_error">>)
                            EXCEPT !.text = ev.text]
            /\ conv' = SetConv("post", u, END)
            /\ UNCHANGED <<user_data, post_messages>>
       ELSE IF post_data[1].type = None
       THEN /\ last' = [Raise(u, "save_post_message", <<>>) EXCEPT !.text = ev.text]
            /\ UNCHANGED <<conv, user_data, post_messages>>
       ELSE LET msg_type == post_data[1].type[1]
                content == PostContent(msg_type, ev)
                r == set_post_message(categories, post_messages,
                                      post_data[1].category_id, msg_type, content[1])
            IN /\ IF content = None \/ r.raised
                  THEN /\ last' = [Answer(u, "save_post_message", <<"save_failed">>)
                                       EXCEPT !.text = ev.text]
                       /\ UNCHANGED post_messages
                  ELSE /\ last' = [Answer(u, "save_post_message", <<"post_saved">>)
                                       EXCEPT !.text = ev.text]
                       /\ post_messages' = r.post_messages
               /\ user_data' = [user_data EXCEPT ![u].post_message = None]
               /\ conv' = SetConv("post", u, END)
    /\ NoDelivery
    /\ UNCHANGED <<categories, files, channels, timer, admins, inbox, tasks>>

\* button_handler, data postmsg_<id>, admin
button_postmsg(u, ev) ==
    /\ InButton(u, ev, "postmsg_")
    /\ is_admin(admins, u)
    /\ SetupPostMessage(u, "button_handler", ev)
    /\ NoDelivery
    /\ UNCHANGED <<dbVars, conv, inbox, tasks>>

\* button_handler, data post_text, post_photo, post_video or post_document, admin
button_post_type(u, ev) ==
    /\ InButton(u, ev, "post_type")
    /\ is_admin(admins, u)
    /\ HandlePostMessageType(u, "button_handler", ev)
    /\ NoDelivery
    /\ UNCHANGED <<categories, files, channels, timer, admins, conv, inbox, tasks>>

(***************************************************************************)
(* Spec: the handlers as setup_bot registers them, one update at a time.   *)
(***************************************************************************)
Init ==
    /\ categories = {[id |-> <<"a", "1">>, name |-> CatName(<<"a", "1">>), created_by |-> 1]}
    /\ files = <<>>
    /\ channels = <<>>
    /\ post_messages = {}
    /\ timer = <<>>
    /\ admins = SeedAdmins({}, ADMIN_IDS)
    /\ InitSessions
    /\ inbox = <<>>

FreeText == <<"n">>

TextUpdates == {Txt(FreeText), Txt(S_cancel)}

\* the names offered for a new category: a free one, and the name of a category
\* that exists from the start
NameUpdates == {Txt(FreeText), Txt(CatName(<<"a", "1">>))}

MessageUpdates == TextUpdates \cup {Media(<<"f", "2">>)}

ButtonUpdates ==
    {Btn(S_add_channel), Btn(S_upload_cat_ \o <<"a", "1">>), Btn(S_postmsg_ \o <<"a", "1">>),
     Btn(S_post_text), Btn(S_post_photo), Btn(S_delcat_ \o <<"a", "1">>)}

Next ==
    \E u \in Users :
        \/ start(u, Txt(S_start))
        \/ new_category(u, Txt(L_new_category))
        \/ \E ev \in NameUpdates, cid \in CatIds : save_category(u, ev, cid)
        \/ upload_command(u, Txt(L_upload))
        \/ channel_management(u, Txt(L_channels))
        \/ \E ev \in MessageUpdates : save_post_message(u, ev)
        \/ \E c \in {"category", "post", ""} : cancel(u, Txt(S_cancel), c)
        \/ handle_post_message_type(u, Btn(S_delpost_ \o <<"a", "1">>))
        \/ \E ev \in ButtonUpdates :
              \/ upload_command(u, ev)
              \/ start_add_channel(u, ev)
              \/ setup_post_message(u, ev)
              \/ handle_post_message_type(u, ev)
              \/ button_denied(u, ev)
              \/ button_delcat(u, ev)
              \/ button_postmsg(u, ev)
              \/ button_post_type(u, ev)

Spec == Init /\ [][Next]_vars

AdminEntryPoints == {"new_category", "upload_command", "channel_management", "start_add_channel"}

\* C7: once a /cancel of a user has been handled, that user is Idle in every flow and
\* has no transient field left (upload batch, channel_id, channel_name, post_message).
C7_CancelLeavesIdle ==
    \A u \in Users :
        (last.user = u /\ last.text = S_cancel) =>
            /\ \A c \in ConvNames : conv[c][u] = END
            /\ user_data[u] = EmptyUserData

\* C10: a non-admin who triggers an admin entry point is answered with permission
\* denied, and the update changes neither the conversation states nor the transient
\* fields nor the repository.
C10_NonAdminDenied ==
    [][\A u \in Users :
          (/\ last' # last
           /\ last'.user = u
           /\ last'.handler \in AdminEntryPoints
           /\ ~is_admin(admins, u))
          => /\ last'.replies = <<"permission_denied">>
             /\ conv' = conv
             /\ user_data' = user_data
             /\ dbVars' = dbVars]_vars


\* C12: a non-admin never gets into the kind or content state of the post-message
\* flow, never has a post_message draft, and never has a post-message stored.
C12_NonAdminNoPostMessage ==
    /\ \A u \in Users :
           ~is_admin(admins, u) =>
               conv["post"][u] = END /\ user_data[u].post_message = None
    /\ (last.handler = "save_post_message" /\ last.replies = <<"post_saved">>)
           => is_admin(admins, last.user)

\* C13: every user is in at most one conversation state that is not Idle.
C13_SingleSession ==
    \A u \in Users : Cardinality({c \in ConvNames : conv[c][u] # END}) <= 1

\* C15: a category name that already exists creates no category, is answered to the
\* admin, and leaves the category flow in Idle or in the awaiting-name state.
C15_DuplicateName ==
    [][\A u \in Users :
          (/\ last' # last
           /\ last'.handler = "save_category"
           /\ last'.user = u
           /\ \E c \in categories : c.name = Strip(last'.text))
          => /\ categories' = categories
             /\ last'.replies # <<>>
             /\ conv'["category"][u] \in {END, "AWAITING_CATEGORY_NAME"}]_vars

\* C16: the delete button pressed in the kind-selection state deletes the category's
\* post-message and ends the post-message flow at once.
C16_DeleteOption ==
    (last.handler = "handle_post_message_type" /\ StartsWith(last.data, S_delpost_)) =>
        /\ conv["post"][last.user] = END
        /\ PostMessageOf(post_messages, Drop(last.data, 8)) = None
        /\ last.replies = <<"post_message_deleted">>

\* C17: an admin who picks a category of the list (upload_cat_<id>) is in Uploading
\* with an empty batch bound to that category.
C17_PickCategoryStartsUpload ==
    (/\ last.handler = "upload_command"
     /\ StartsWith(last.data, S_upload_cat_)
     /\ is_admin(admins, last.user)
     /\ Drop(last.data, 11) \in CategoryIds(categories))
    => /\ conv["upload"][last.user] = "UPLOADING"
       /\ user_data[last.user].upload =
              Some([category_id |-> Drop(last.data, 11), files |-> <<>>])


(***************************************************************************)
(* The timer switch and the admin table: toggle_timer, and the calls of    *)
(* Database.add_admin and Database.remove_admin.                           *)
(***************************************************************************)
toggle_timer(u, ev) ==
    /\ Quiet
    /\ Routed(u, ev, "toggle_timer", "")
    /\ LET new_status == IF timer # <<>> THEN ~timer[1].is_active ELSE TRUE IN
       timer' = update_timer_settings(timer, new_status)
    /\ last' = Answer(u, "toggle_timer", <<"timer_toggled">>)
    /\ NoDelivery
    /\ UNCHANGED <<categories, files, channels, post_messages, admins, conv, user_data, inbox, tasks>>

\* a call Database.add_admin(user_id, is_super, added_by)
call_add_admin(user_id, is_super, added_by) ==
    /\ Quiet
    /\ admins' = add_admin(admins, user_id, is_super, added_by)
    /\ last' = [NoLast EXCEPT !.handler = "add_admin",
                              !.args = <<user_id, is_super, added_by>>]
    /\ NoDelivery
    /\ UNCHANGED <<categories, files, channels, post_messages, timer, conv, user_data, inbox, tasks>>

\* a call Database.remove_admin(user_id)
call_remove_admin(user_id) ==
    /\ Quiet
    /\ admins' = remove_admin(admins, user_id)
    /\ last' = [NoLast EXCEPT !.handler = "remove_admin", !.args = <<user_id>>]
    /\ NoDelivery
    /\ UNCHANGED <<categories, files, channels, post_messages, timer, conv, user_data, inbox, tasks>>

\* BotManager.init run again (a restart of the process): the seeding loop
BotManager_init ==
    /\ Quiet
    /\ admins' = SeedAdmins(admins, ADMIN_IDS)
    /\ last' = [NoLast EXCEPT !.handler = "init"]
    /\ NoDelivery
    /\ UNCHANGED <<categories, files, channels, post_messages, timer, conv, user_data, inbox, tasks>>

(***************************************************************************)
(* SpecAdmin: the timer button pressed by any user, and any sequence of    *)
(* add_admin and remove_admin calls after BotManager.init.                 *)
(***************************************************************************)
UserIds == Users \cup {3}

InitAdmin ==
    /\ categories = {}
    /\ files = <<>>
    /\ channels = <<>>
    /\ post_messages = {}
    /\ timer = <<>>
    /\ admins = SeedAdmins({}, ADMIN_IDS)
    /\ InitSessions
    /\ inbox = <<>>

NextAdmin ==
    \/ \E u \in Users : toggle_timer(u, Btn(S_toggle_timer))
    \/ \E id \in UserIds, is_super \in BOOLEAN, by \in Users : call_add_admin(id, is_super, by)
    \/ \E id \in UserIds : call_remove_admin(id)
    \/ BotManager_init

SpecAdmin == InitAdmin /\ [][NextAdmin]_vars

\* the rows of user id in the admin table
AdminRows(adm, id) == {a \in adm : a.user_id = id}

\* C11: a toggle_timer button pressed by a user who is not in the admin table changes
\* nothing of the timer settings table.
C11_TimerAdminOnly ==
    [][\A u \in Users :
          (last'.handler = "toggle_timer" /\ last'.user = u /\ ~is_admin(admins, u))
          => timer' = timer]_vars

\* C18: remove_admin deletes the row of the user only if it has is_super false; for a
\* super admin, or a user with no row, the admin table stays as it was.
C18_RemoveAdmin ==
    [][last'.handler = "remove_admin" =>
          LET id == last'.args[1] IN
          IF \E a \in AdminRows(admins, id) : ~a.is_super
          THEN admins' = admins \ AdminRows(admins, id)
          ELSE admins' = admins]_vars

\* C18 witness: remove_admin was called for a user who is in the table as super admin
\* next to a user who is in it as plain admin
C18_Witness ==
    /\ last.handler = "remove_admin"
    /\ \E a \in AdminRows(admins, last.args[1]) : a.is_super
    /\ \E a \in admins : ~a.is_super

\* C19: add_admin with is_super false gives a user without a row a plain row, and
\* leaves a super admin a super admin.
C19_PromoteKeepsSuper ==
    [][(last'.handler = "add_admin" /\ last'.args[2] = FALSE) =>
          LET id == last'.args[1] IN
          /\ AdminRows(admins, id) = {} =>
                 AdminRows(admins', id) =
                     {[user_id |-> id, is_super |-> FALSE, added_by |-> last'.args[3]]}
          /\ (\E a \in AdminRows(admins, id) : a.is_super) =>
                 (\E a \in AdminRows(admins', id) : a.is_super)]_vars

\* C20: every seed admin stays in the admin table as super admin.
C20_SeedAdminsProtected ==
    \A id \in ADMIN_IDS : \E a \in AdminRows(admins, id) : a.is_super

\* C21: the seeding of BotManager.init, run from any admin table, gives a table that
\* a further run leaves as it is; in it every seed id is a super admin, a seed row made
\* by this run has added_by 0, and the rows of the other users are as before.
C21_SeedIdempotent ==
    [][last'.handler = "init" =>
          /\ SeedAdmins(admins', ADMIN_IDS) = admins'
          /\ \A id \in ADMIN_IDS : \E a \in AdminRows(admins', id) : a.is_super
          /\ \A id \in ADMIN_IDS :
                 AdminRows(admins, id) = {} =>
                     AdminRows(admins', id) =
                         {[user_id |-> id, is_super |-> TRUE, added_by |-> 0]}
          /\ \A id \in UserIds \ ADMIN_IDS :
                 AdminRows(admins', id) = AdminRows(admins, id)]_vars

\* C21 witness: the seeding ran over a table that held a seed admin added by a user
\* and an admin that is no seed admin
C21_Witness ==
    /\ last.handler = "init"
    /\ \E a \in admins : a.user_id \in ADMIN_IDS /\ a.added_by # 0
    /\ \E a \in admins : a.user_id \notin ADMIN_IDS

(***************************************************************************)
(* Deep links: generate_link builds the link of a category, the client     *)
(* that opens it sends "/start <start parameter>", and start decodes it.   *)
(***************************************************************************)
MaxArgLen == 5

S_link == <<"h", "t", "t", "p", "s", ":", "/", "/", "t", ".", "m", "e", "/", "b", "o", "t",
            "?", "s", "t", "a", "r", "t", "=">>

\* generate_link (bot_username "bot")
generate_link(category_id) == S_link \o S_cat_ \o category_id

\* the start parameter of a link: what follows "start="
StartParameter(link) == Drop(link, IndexOf(link, "=", 1))

\* the message a client sends when the user opens the link
LinkMessage(link) == S_start \o <<" ">> \o StartParameter(link)

\* characters of str(uuid.uuid4())[:8]
HexDigits == {"a", "b", "c", "1", "2"}

LinkIds == {<<x, y>> : x, y \in HexDigits}

\* what a user can type after /start
ArgTexts == UNION {[1..n -> {"c", "a", "t", "_", " "}] : n \in 1..MaxArgLen}

StartTexts == {S_start} \cup {S_start \o <<" ">> \o t : t \in ArgTexts}

\* one message is on its way: the message of an opened link, or a typed one
InitLink ==
    /\ categories = PersistedCategories
    /\ files = <<>>
    /\ channels \in {<<>>, <<ChannelRow(<<"-", "1", "0", "0", "1">>)>>}
    /\ post_messages = {}
    /\ timer = <<>>
    /\ admins = SeedAdmins({}, ADMIN_IDS)
    /\ InitSessions
    /\ \E u \in Users, t \in StartTexts \cup {LinkMessage(generate_link(c)) : c \in LinkIds} :
           inbox = <<[user |-> u, text |-> t]>>

NextLink ==
    \/ \E u \in Users : start_message(u)
    \/ \E outcome \in Outcomes : check_channel_membership(outcome)
    \/ \E ok \in BOOLEAN : send_category_files(ok)

SpecLink == InitLink /\ [][NextLink]_vars

\* the step is start handling the message t of user u
StartStep(u, t) ==
    /\ inbox # <<>>
    /\ inbox' = Tail(inbox)
    /\ Head(inbox) = [user |-> u, text |-> t]
    /\ last'.handler = "start"

\* C22: the start parameter of generate_link(c) is cat_ followed by c; when a user who
\* is no admin opens the link, handle_category runs for exactly c; and a /start whose
\* first argument does not begin with cat_ (or that has no argument) starts no
\* category access.
C22_DeepLinkRoundTrip ==
    [][/\ \A c \in LinkIds : StartParameter(generate_link(c)) = S_cat_ \o c
       /\ \A u \in Users, c \in LinkIds :
            (StartStep(u, LinkMessage(generate_link(c))) /\ ~is_admin(admins, u))
            => run'.pc \in {"gate", "deliver"} /\ run'.user = u /\ run'.category_id = c
       /\ \A u \in Users :
            (/\ inbox # <<>>
             /\ StartStep(u, Head(inbox).text)
             /\ LET args == CommandArgs(Txt(Head(inbox).text)) IN
                args = <<>> \/ ~StartsWith(args[1], S_cat_))
            => run' = NoRun]_vars

\* C22 witness: the access that the link of category "ca" started has reached the end
C22_Witness ==
    /\ last.handler = "start"
    /\ run.pc = "done"
    /\ run.gate = "Granted"
    /\ run.category_id = <<"c", "a">>
    /\ inbox = <<>>

(***************************************************************************)
(* Concurrent requests.  webhook_handler awaits process_update inside the  *)
(* task of its request, so the handling of two updates interleaves at      *)
(* every await.  toggle_timer and finish_upload are followed statement by  *)
(* statement; every SQL statement is one step.                             *)
(***************************************************************************)
Active(t) == tasks[t].pc \notin {"free", "done"}

\* tasks are numbered in the order the requests arrive
Arrives(t) == tasks[t].pc = "free" /\ \A o \in TaskIds : o < t => tasks[o].pc # "free"

\* SELECT * FROM auto_delete_settings LIMIT 1: the index of some row, 0 if none
TimerRow == IF timer = <<>> THEN {0} ELSE 1..Len(timer)

\* toggle_timer up to its first read of the table
toggle_timer_task(t, u, ev) ==
    /\ Arrives(t)
    /\ Routed(u, ev, "toggle_timer", "")
    /\ tasks' = [tasks EXCEPT ![t] = [NoTask EXCEPT !.pc = "get_timer_settings",
                                                    !.user = u, !.handler = "toggle_timer"]]
    /\ UNCHANGED <<dbVars, conv, user_data, run, memb, trace, last, inbox>>

\* settings = get_timer_settings(); new_status = not settings['is_active'] if settings else True
get_timer_settings(t) ==
    /\ tasks[t].pc = "get_timer_settings"
    /\ \E i \in TimerRow :
         tasks' = [tasks EXCEPT ![t].pc = "update_timer_settings",
                                ![t].new_status = IF i = 0 THEN TRUE ELSE ~timer[i].is_active]
    /\ UNCHANGED <<dbVars, conv, user_data, run, memb, trace, last, inbox>>

\* update_timer_settings: its own read of the table
update_timer_settings_read(t) ==
    /\ tasks[t].pc = "update_timer_settings"
    /\ \E i \in TimerRow : tasks' = [tasks EXCEPT ![t].pc = "execute", ![t].row = i]
    /\ UNCHANGED <<dbVars, conv, user_data, run, memb, trace, last, inbox>>

\* update_timer_settings: UPDATE ... WHERE id = settings['id'], or INSERT; then
\* toggle_timer edits the message
update_timer_settings_write(t) ==
    /\ tasks[t].pc = "execute"
    /\ timer' = IF tasks[t].row = 0
                THEN Append(timer, [is_active |-> tasks[t].new_status])
                ELSE [timer EXCEPT ![tasks[t].row] = [is_active |-> tasks[t].new_status]]
    /\ tasks' = [tasks EXCEPT ![t].pc = "done"]
    /\ last' = Answer(tasks[t].user, "toggle_timer", <<"timer_toggled">>)
    /\ UNCHANGED <<categories, files, channels, post_messages, admins, conv, user_data,
                   run, memb, trace, inbox>>

\* a variant that reads the batch and leaves it in user_data while add_files runs
finish_upload_task_m(t, u, ev) ==
    /\ Arrives(t)
    /\ Routed(u, ev, "finish_upload", "upload")
    /\ LET started == [NoTask EXCEPT !.user = u, !.handler = "finish_upload"] IN
       IF user_data[u].upload = None
       THEN /\ tasks' = [tasks EXCEPT ![t] = [started EXCEPT !.pc = "done"]]
            /\ last' = Answer(u, "finish_upload", <<"no_active_upload">>)
            /\ conv' = SetConv("upload", u, END)
       ELSE LET upload == user_data[u].upload[1] IN
            IF upload.files = <<>>
            THEN /\ tasks' = [tasks EXCEPT ![t] = [started EXCEPT !.pc = "done"]]
                 /\ last' = Answer(u, "finish_upload", <<"no_file_received">>)
                 /\ conv' = SetConv("upload", u, END)
            ELSE /\ tasks' = [tasks EXCEPT ![t] =
                                 [started EXCEPT !.pc = "select",
                                                 !.category_id = upload.category_id,
                                                 !.batch = upload.files, !.k = 1]]
                 /\ UNCHANGED <<last, conv>>
    /\ UNCHANGED <<dbVars, user_data, run, memb, trace, inbox>>

\* finish_upload up to the call of add_files
finish_upload_task(t, u, ev) ==
    /\ Arrives(t)
    /\ Routed(u, ev, "finish_upload", "upload")
    /\ LET started == [NoTask EXCEPT !.user = u, !.handler = "finish_upload"] IN
       IF user_data[u].upload = None
       THEN /\ tasks' = [tasks EXCEPT ![t] = [started EXCEPT !.pc = "done"]]
            /\ last' = Answer(u, "finish_upload", <<"no_active_upload">>)
            /\ conv' = SetConv("upload", u, END)
            /\ UNCHANGED user_data
       ELSE LET upload == user_data[u].upload[1] IN
            /\ user_data' = [user_data EXCEPT ![u].upload = None]
            /\ IF upload.files = <<>>
               THEN /\ tasks' = [tasks EXCEPT ![t] = [started EXCEPT !.pc = "done"]]
                    /\ last' = Answer(u, "finish_upload", <<"no_file_received">>)
                    /\ conv' = SetConv("upload", u, END)
               ELSE /\ tasks' = [tasks EXCEPT ![t] =
                                    [started EXCEPT !.pc = "select",
                                                    !.category_id = upload.category_id,
                                                    !.batch = upload.files, !.k = 1]]
                    /\ UNCHANGED <<last, conv>>
    /\ UNCHANGED <<dbVars, run, memb, trace, inbox>>

\* the loop of add_files goes to its next file, or add_files returns and finish_upload
\* reports the count and ends the conversation
NextFile(t, task) ==
    IF task.k < Len(task.batch)
    THEN /\ tasks' = [tasks EXCEPT ![t] = [task EXCEPT !.pc = "select", !.k = @ + 1]]
         /\ UNCHANGED <<last, conv>>
    ELSE /\ tasks' = [tasks EXCEPT ![t] = [task EXCEPT !.pc = "done"]]
         /\ last' = [Answer(task.user, "finish_upload", <<"files_saved">>)
                     EXCEPT !.offered = Len(task.batch), !.count = Some(task.count)]
         /\ conv' = SetConv("upload", task.user, END)

\* add_files: SELECT 1 FROM files WHERE file_id = $1
add_files_select(t) ==
    /\ tasks[t].pc = "select"
    /\ IF FileExists(files, tasks[t].batch[tasks[t].k].file_id)
       THEN NextFile(t, tasks[t])
       ELSE tasks' = [tasks EXCEPT ![t].pc = "insert"] /\ UNCHANGED <<last, conv>>
    /\ UNCHANGED <<dbVars, user_data, run, memb, trace, inbox>>

\* add_files: the INSERT; a UniqueViolationError is caught, any other error leaves
\* add_files and finish_upload
add_files_insert(t) ==
    /\ tasks[t].pc = "insert"
    /\ LET task == tasks[t]
           r == InsertFile(categories, files, task.category_id, task.batch[task.k])
       IN /\ files' = r.files
          /\ IF r.error = "unique"
             THEN NextFile(t, [task EXCEPT !.conflicts = @ + 1])
             ELSE IF r.error # ""
             THEN /\ tasks' = [tasks EXCEPT ![t] = [task EXCEPT !.pc = "done",
                                                               !.raised = TRUE]]
                  /\ last' = Raise(task.user, "finish_upload", <<>>)
                  /\ UNCHANGED conv
             ELSE NextFile(t, [task EXCEPT !.count = @ + 1])
    /\ UNCHANGED <<categories, channels, post_messages, timer, admins, user_data,
                   run, memb, trace, inbox>>

(***************************************************************************)
(* SpecConcurrent: two requests in flight, from one user or from two, in a *)
(* deployment whose ADMIN_IDS lists both users.  The upload sessions are   *)
(* as upload_command with a category id and handle_file leave them.        *)
(***************************************************************************)
\* the batches of up to MaxBatch files, a reference possibly repeated
RECURSIVE Batches(_)
Batches(n) ==
    IF n = 0 THEN {<<>>}
    ELSE Batches(n - 1) \cup
         {Append(b, extract_file_info(Media(f))[1]) :
              b \in {x \in Batches(n - 1) : Len(x) = n - 1},
              f \in {<<"f", "1">>, <<"f", "2">>}}

\* context.user_data of a user: no upload, or one opened for a category
UploadSessions ==
    {EmptyUserData} \cup
    {[EmptyUserData EXCEPT !.upload = Some([category_id |-> <<"a", "1">>, files |-> b])] :
         b \in Batches(MaxBatch)}

InitConcurrent ==
    /\ categories = PersistedCategories
    /\ files = <<>>
    /\ channels = <<>>
    /\ post_messages = {}
    /\ timer \in {<<>>, <<[is_active |-> FALSE]>>}
    /\ admins = SeedAdmins({}, Users)
    /\ user_data \in [Users -> UploadSessions]
    /\ conv = [c \in ConvNames |->
                 [u \in Users |-> IF c = "upload" /\ user_data[u].upload # None
                                  THEN "UPLOADING" ELSE END]]
    /\ run = NoRun
    /\ memb = <<>>
    /\ trace = <<>>
    /\ last = NoLast
    /\ inbox = <<>>
    /\ tasks = NoTasks

NextConcurrent ==
    \/ \E t \in TaskIds, u \in Users :
          \/ toggle_timer_task(t, u, Btn(S_toggle_timer))
          \/ finish_upload_task(t, u, Txt(S_finish_upload))
    \/ \E t \in TaskIds :
          \/ get_timer_settings(t)
          \/ update_timer_settings_read(t)
          \/ update_timer_settings_write(t)
          \/ add_files_select(t)
          \/ add_files_insert(t)

SpecConcurrent == InitConcurrent /\ [][NextConcurrent]_vars

\* C23: no two requests of one user are in handling at the same moment.
C23_PerUserExclusion ==
    \A t, o \in TaskIds : (t # o /\ Active(t) /\ Active(o)) => tasks[t].user # tasks[o].user

\* C26: auto_delete_settings never holds more than one row.
C26_TimerSingleton == Len(timer) <= 1

\* C27: with finish_upload running for two admins at once, no file reference is in the
\* files table twice, no finish_upload raises, and the counts the finished ones
\* reported add up to the rows of the table (which was empty before them).
C27_ConcurrentFinish ==
    /\ NoDuplicateFiles
    /\ \A t \in TaskIds : ~tasks[t].raised
    /\ (\A t \in TaskIds : tasks[t].pc = "done" /\ tasks[t].handler = "finish_upload")
       => tasks[1].count + tasks[2].count = Len(files)

\* C27 witness: both finished, and one of them lost the race for a reference, its
\* INSERT rejected after its SELECT had found nothing
C27_Witness ==
    /\ \A t \in TaskIds : tasks[t].pc = "done" /\ tasks[t].handler = "finish_upload"
    /\ tasks[1].user # tasks[2].user
    /\ \E t \in TaskIds : tasks[t].conflicts > 0
    /\ files # <<>>

\* C24 (checked under SpecAccess): a delivery of a category without files sends no
\* file and starts with the not-found notice; when the category exists and has a
\* post-message, the post-message is sent right after the notice, as the last send.
C24_EmptyCategoryDelivery ==
    (run.pc = "done" /\ trace # <<>> /\ FilesOf(files, run.category_id) = <<>>) =>
        /\ trace[1] = Sent("no_files_notice", <<>>, TRUE)
        /\ FileSendIdx = {}
        /\ (/\ run.category_id \in CategoryIds(categories)
            /\ PostMessageOf(post_messages, run.category_id) # None)
           => Len(trace) = 2 /\ trace[2].op = "post_message"

\* C25 (checked under SpecUpload): every row of files and of post_messages refers to
\* a category that exists; so once delete_category(c) has removed c, no file and no
\* post-message of c is left.
C25_DeleteCascades ==
    /\ \A i \in 1..Len(files) : files[i].category_id \in CategoryIds(categories)
    /\ \A m \in post_messages : m.category_id \in CategoryIds(categories)

\* C25 witness: a category was deleted, files of it went with it and files of another
\* category are still there
C25_Witness ==
    /\ last.replies = <<"category_deleted">>
    /\ last.added < 0
    /\ files # <<>>
    /\ post_messages = {}

(***************************************************************************)
(* Re-checks: the "I have joined" button pressed again while the channel   *)
(* list changes (a call of Database.add_channel, the delchan_ button) and  *)
(* while the answers of get_chat_member change.                            *)
(***************************************************************************)
\* a call Database.add_channel(channel_id, name, link)
call_add_channel(channel_id) ==
    /\ Quiet
    /\ channels' = add_channel(channels, channel_id, <<"c">>, <<"l">>).channels
    /\ UNCHANGED <<categories, files, post_messages, timer, admins, conv, user_data,
                   run, memb, trace, last, inbox, tasks>>

\* button_handler, data delchan_<id>, admin
button_delchan(u, ev) ==
    /\ InButton(u, ev, "delchan_")
    /\ is_admin(admins, u)
    /\ LET r == delete_channel(channels, Drop(ev.data, 8)) IN
       /\ channels' = r.channels
       /\ last' = Answer(u, "button_handler",
                         IF r.success THEN <<"channel_deleted">> ELSE <<"delete_failed">>)
    /\ NoDelivery
    /\ UNCHANGED <<categories, files, post_messages, timer, admins, conv, user_data,
                   inbox, tasks>>

InitRecheck ==
    /\ categories = PersistedCategories
    /\ files = <<>>
    /\ channels = <<ChannelRow(<<"-", "1", "0", "0", "1">>)>>
    /\ post_messages = {}
    /\ timer = <<>>
    /\ admins = SeedAdmins({}, ADMIN_IDS)
    /\ InitSessions
    /\ inbox = <<>>

NextRecheck ==
    \/ \E u \in Users :
          \/ start(u, Txt(StartArg(<<"a", "1">>)))
          \/ button_check(u, Btn(S_check_ \o <<"a", "1">>))
          \/ \E id \in ChannelIds : button_delchan(u, Btn(S_delchan_ \o id))
    \/ \E id \in ChannelIds : call_add_channel(id)
    \/ \E outcome \in Outcomes : check_channel_membership(outcome)
    \/ \E ok \in BOOLEAN : send_category_files(ok)

SpecRecheck == InitRecheck /\ [][NextRecheck]_vars

\* the gate of a check_ press has ended: every channel of its list was asked about, and
\* the channels reported as not joined are those no call of this press satisfied
RecheckResult ==
    (last.handler = "button_handler" /\ run.gate # "") =>
        \A i \in 1..Len(run.channels) :
            /\ memb[i].calls >= 1
            /\ (\E j \in 1..Len(run.non_joined) : run.non_joined[j] = run.channels[i])
               <=> ~memb[i].ok

\* C28: a press of the check_ button reads the channel table as it is now and starts
\* with no channel decided; what it reports rests on the calls of this press alone.
C28_RecheckFromScratch ==
    [][/\ (Quiet /\ last'.handler = "button_handler" /\ run'.pc \in {"gate", "deliver"})
          => /\ SameRows(run'.channels, channels)
             /\ memb' = [i \in 1..Len(channels) |-> NoCalls]
             /\ run'.non_joined = <<>>
       /\ RecheckResult']_vars

\* C28 witness: a re-check over two channels, one of them added after the start of the
\* process, reports the older channel as not joined and has asked about the newer one
C28_Witness ==
    /\ last.handler = "button_handler"
    /\ run.gate = "Pending"
    /\ Len(run.channels) = 2
    /\ \E i \in 1..2 :
          /\ run.channels[i].channel_id = <<"-", "1", "0", "0", "1">>
          /\ ~memb[i].ok
          /\ memb[3 - i].calls >= 1

(***************************************************************************)
(* SpecSessions: two admins (a deployment whose ADMIN_IDS lists both       *)
(* users) in the upload, post-message and channel flows at the same time.  *)
(***************************************************************************)
InitSessionsOfTwo ==
    /\ categories = PersistedCategories
    /\ files = <<>>
    /\ channels = <<>>
    /\ post_messages = {}
    /\ timer = <<>>
    /\ admins = SeedAdmins({}, Users)
    /\ InitSessions
    /\ inbox = <<[user |-> 1, text |-> ValidIdText]>>

NextSessions ==
    \E u \in Users :
        \/ upload_command_args(u, <<"a", "1">>)
        \/ handle_file(u, Media(<<"f", "1">>))
        \/ finish_upload(u, Txt(S_finish_upload))
        \/ \E c \in {"upload", "post", ""} : cancel(u, Txt(S_cancel), c)
        \/ setup_post_message(u, Btn(S_postmsg_ \o <<"a", "1">>))
        \/ handle_post_message_type(u, Btn(S_post_text))
        \/ save_post_message(u, Txt(FreeText))
        \/ start_add_channel_message(u)
        \/ handle_channel_id(u)

SpecSessions == InitSessionsOfTwo /\ [][NextSessions]_vars

\* C29: the handling of an update of one user leaves the conversation states and the
\* user_data of every other user as they were.
C29_NoCrossUserMutation ==
    [][\A u \in Users :
          u # last'.user =>
              /\ user_data'[u] = user_data[u]
              /\ \A c \in ConvNames : conv'[c][u] = conv[c][u]]_vars

\* C29 witness: user 2 has finished an upload or cancelled while user 1 is in the
\* upload flow with a file in the batch and has a post-message draft
C29_Witness ==
    /\ last.user = 2
    /\ last.handler \in {"finish_upload", "cancel"}
    /\ conv["upload"][1] = "UPLOADING"
    /\ user_data[1].upload # None
    /\ user_data[1].upload[1].files # <<>>
    /\ user_data[1].post_message # None

\* C30 (checked under SpecAccess): check_channel_membership calls get_chat_member at
\* most 3 times for a channel and not again once a call satisfied; after a transport
\* error on the first or second attempt the next attempt on the same channel follows;
\* and no error leaves the handler.
C30_MembershipAttempts ==
    [][/\ \A i \in 1..Len(memb') : memb'[i].calls <= MembershipAttempts
       /\ ~last'.raised
       /\ run.pc = "gate" =>
             /\ \A i \in 1..Len(memb) : (memb[i].ok \/ i # run.i) => memb'[i] = memb[i]
             /\ memb'[run.i].calls = memb[run.i].calls + 1
       /\ (check_channel_membership("error") /\ memb[run.i].calls + 1 < MembershipAttempts)
          => /\ run'.pc = "gate"
             /\ run'.i = run.i
             /\ run'.attempt = run.attempt + 1
             /\ ~memb'[run.i].ok]_vars

\* C30 witness: a channel counted as joined on the third call, after two attempts each
\* followed by the sleep (a transport error or a status that does not satisfy)
C30_Witness ==
    \E i \in 1..Len(memb) :
        /\ memb[i].ok
        /\ memb[i].calls = 3
        /\ memb[i].sleeps = 2
        /\ run.gate = "Granted"

\* C31 (checked under SpecAccess): the 2 s delay happens only between attempts, so a
\* membership check that has ended after k calls (a call satisfied, or the third
\* call was made) has slept exactly k - 1 times.
C31_DelayBetweenAttempts ==
    \A i \in 1..Len(memb) :
        (memb[i].ok \/ memb[i].calls = MembershipAttempts)
            => memb[i].sleeps = memb[i].calls - 1

(***************************************************************************)
(* SpecPostMessage: the post-message flow with every kind of selection and *)
(* every kind of payload, /cancel included, next to the channel flow fed   *)
(* with a /cancel text.                                                    *)
(***************************************************************************)
InitPostMessage ==
    /\ categories = PersistedCategories
    /\ files = <<>>
    /\ channels = <<>>
    /\ post_messages \in PersistedPostMessages
    /\ timer = <<>>
    /\ admins = SeedAdmins({}, ADMIN_IDS)
    /\ InitSessions
    /\ inbox = <<[user |-> 1, text |-> S_cancel]>>

\* the callback data the kind keyboard of setup_post_message offers
PostTypeButtons ==
    {S_post_text, S_post_photo, S_post_video, S_post_document, S_delpost_ \o <<"a", "1">>}

\* the messages filters.TEXT | PHOTO | VIDEO | DOCUMENT accepts
PostPayloads ==
    {Txt(FreeText), Txt(S_cancel),
     Media(<<"f", "1">>), Media(<<"f", "2">>), Media(<<"f", "3">>)}

NextPostMessage ==
    \E u \in Users :
        \/ setup_post_message(u, Btn(S_postmsg_ \o <<"a", "1">>))
        \/ \E d \in PostTypeButtons : handle_post_message_type(u, Btn(d))
        \/ \E ev \in PostPayloads : save_post_message(u, ev)
        \/ \E c \in {"post", "channel", ""} : cancel(u, Txt(S_cancel), c)
        \/ start_add_channel_message(u)
        \/ handle_channel_id(u)

SpecPostMessage == InitPostMessage /\ [][NextPostMessage]_vars

\* the kind of post-message a payload is: text, or the kind of its file
PayloadKind(ev) ==
    CASE ev.media = "photo" -> S_photo
      [] ev.media = "video" -> S_video
      [] ev.media = "document" -> S_document
      [] OTHER -> S_text

\* the kind user u selected, None before a selection
SelectedKind(u) ==
    IF user_data[u].post_message = None THEN None ELSE user_data[u].post_message[1].type

\* C32 (checked under SpecPostMessage): when save_post_message handles a payload whose
\* kind is not the selected kind, the post-messages stay as they were and the user is
\* told that saving failed; when the kind is the selected one, the post-message of the
\* draft's category becomes that payload with that kind, and no other row changes.
C32_MismatchedPayload ==
    [][\A u \in Users : \A ev \in PostPayloads :
          (save_post_message(u, ev) /\ SelectedKind(u) # None) =>
              IF SelectedKind(u) # Some(PayloadKind(ev))
              THEN /\ post_messages' = post_messages
                   /\ last'.replies = <<"save_failed">>
              ELSE LET cid == user_data[u].post_message[1].category_id IN
                   /\ [category_id |-> cid, message_type |-> PayloadKind(ev),
                       content |-> IF ev.media = "none" THEN ev.text ELSE ev.file_id]
                          \in post_messages'
                   /\ \A m \in post_messages' : m.category_id = cid => m.message_type = PayloadKind(ev)
                   /\ \A m \in post_messages : m.category_id # cid => m \in post_messages'
                   /\ last'.replies = <<"post_saved">>]_vars

\* C32 witness: a payload was refused while a post-message of the category exists
\* and another kind was selected
C32_Witness ==
    /\ last.handler = "save_post_message"
    /\ last.replies = <<"save_failed">>
    /\ post_messages # {}
    /\ conv["post"][last.user] = END

\* C33 (checked under SpecPostMessage): the handling of a /cancel message, whichever
\* handler takes it (the cancel fallback, the plain cancel command, save_post_message
\* in the content state, handle_channel_id in the channel state), leaves every table
\* of the repository as it was.
C33_CancelNoMutation ==
    [][\A u \in Users :
          (\/ \E c \in {"post", "channel", ""} : cancel(u, Txt(S_cancel), c)
           \/ save_post_message(u, Txt(S_cancel))
           \/ (inbox # <<>> /\ Head(inbox).text = S_cancel /\ handle_channel_id(u)))
          => dbVars' = dbVars]_vars

\* C34 (checked under SpecConcurrent): a finish_upload of a user that starts while an
\* earlier finish_upload of the same user is in flight finds no upload: it answers
\* that no upload is active and touches neither the files nor the session data; so of
\* two finish_upload requests of one user at most one calls add_files with a batch.
C34_BatchPersistedOnce ==
    [][/\ \A u \in Users :
            (/\ finish_upload_task(2, u, Txt(S_finish_upload))
             /\ tasks[1].handler = "finish_upload"
             /\ tasks[1].user = u)
            => /\ last'.replies = <<"no_active_upload">>
               /\ tasks'[2].pc = "done"
               /\ tasks'[2].batch = <<>>
               /\ user_data' = user_data
               /\ files' = files
       /\ \A t, o \in TaskIds :
            (/\ t # o
             /\ tasks'[t].handler = "finish_upload"
             /\ tasks'[o].handler = "finish_upload"
             /\ tasks'[t].user = tasks'[o].user)
            => (tasks'[t].batch = <<>> \/ tasks'[o].batch = <<>>)]_vars

\* C34 witness: the second finish_upload of the user has been answered while the
\* first, which took the batch, is inside add_files
C34_Witness ==
    /\ tasks[1].handler = "finish_upload"
    /\ tasks[2].handler = "finish_upload"
    /\ tasks[1].user = tasks[2].user
    /\ tasks[1].pc \in {"select", "insert"}
    /\ tasks[1].batch # <<>>
    /\ tasks[2].pc = "done"
    /\ last.replies = <<"no_active_upload">>

(***************************************************************************)
(* SpecAccessFair: SpecAccess with the event loop resuming the handler     *)
(* after each await: a get_chat_member or send call returns or raises      *)
(* (the transport has timeouts), and asyncio.sleep returns.                *)
(***************************************************************************)
AccessStep ==
    \/ \E outcome \in Outcomes : check_channel_membership(outcome)
    \/ \E ok \in BOOLEAN :
          \/ send_category_files(ok)
          \/ send_file(ok)
          \/ send_post_message(ok)

SpecAccessFair == InitAccess /\ [][NextAccess]_vars /\ WF_vars(AccessStep)

\* the get_chat_member calls of the access in handling
RECURSIVE TotalCalls(_)
TotalCalls(m) == IF m = <<>> THEN 0 ELSE Head(m).calls + TotalCalls(Tail(m))

InHandling == run.pc \in {"gate", "deliver", "send", "post"}

\* C35 (checked under SpecAccessFair): an access in handling reaches its end, whatever
\* the membership calls and the sends answer; the gate makes at most 3 calls per
\* channel of the list it read, and a delivery that reached its loop has made one send
\* attempt per file of the category and at most one post-message send when it ends.
C35_AccessTerminates ==
    /\ [](/\ Len(memb) <= Len(run.channels)
          /\ TotalCalls(memb) <= MembershipAttempts * Len(run.channels)
          /\ Cardinality(FileSendIdx) <= Len(run.files)
          /\ Cardinality(PostSendIdx) <= 1
          /\ (run.pc \in {"post", "done"} /\ Announced)
                => Cardinality(FileSendIdx) = Len(run.files))
    /\ (InHandling ~> run.pc = "done")

\* C35 witness: an access ended after the gate used all its calls on two channels
C35_Witness ==
    /\ run.pc = "done"
    /\ Len(run.channels) = 2
    /\ TotalCalls(memb) = 2 * MembershipAttempts

=============================================================================
